---- MODULE Spec2Model ----
(***************************************************************************)
(* Model of the PorTaTek OpenAI gateway (openai-gateway.js): model         *)
(* resolution, provider routing, the three retry executors, the response   *)
(* cache with its expiry timers, the streaming relay and the admin         *)
(* configuration endpoints.                                                *)
(***************************************************************************)
EXTENDS Integers, Sequences, FiniteSets, TLC

VARIABLES
    MAX_RETRIES,        \* parseInt(process.env.MAX_RETRIES || '3', 10)
    MODEL_MAPPING,      \* client model name -> target model
    MODEL_PROVIDER,     \* target model -> 'gemini' | 'opencode' (absent = "none")
    FALLBACK_MAPPING,   \* target model -> next target model (absent = NoModel)
    providerApiKeys,    \* provider -> sequence of keys
    providerKeyIndex,   \* provider -> round-robin index
    geminiClient,       \* TRUE when the Gemini SDK client object exists
    opencodeClient,     \* TRUE when the OpenCode SDK client object exists
    responseCache,      \* cache key -> stored response (a Map)
    timers,             \* pending setTimeout(() => responseCache.delete(key), CACHE_TTL)
    now,                \* the clock, in ticks
    reqs,               \* request id -> state of that request's handler
    nextId,             \* serial number of the next upstream completion (response ids)
    storeLog,           \* cache key -> stores made since the last clear-cache
    adminOps,           \* number of admin operations performed
    users,              \* UserManager.users: user id -> user record
    issued,             \* user ids for which a JWT has been issued
    customProviders,    \* names in the customProviders Map
    lastCall,           \* token and answer of the last /config request
    lastUserOp,         \* the last UserManager call and what it returned
    activeDeviceFlows,  \* GitHubDeviceAuthManager.activeDeviceFlows: device code -> flow
    pendingPolls,       \* per device code, token requests awaiting GitHub's answer
    deviceCodes,        \* device codes GitHub has handed out so far
    tokenRequests,      \* number of requests sent to GitHub's token endpoint
    tokensIssued,       \* device codes for which pollAccessToken resolved with a token
    lastPoll,           \* the last pollAccessToken call and how it was settled
    sessions,           \* SessionManager.sessions: session id -> session
    messageHistory,     \* SessionManager.messageHistory: session id -> messages
    lastCleanup,        \* what the last cleanupExpiredSessions call returned
    namedProvider,      \* per client model name, the provider of the last accepted /config/models body
    geminiClientKey     \* the API key the Gemini SDK client object was constructed with

cfgVars   == <<MAX_RETRIES, MODEL_MAPPING, MODEL_PROVIDER, FALLBACK_MAPPING>>
keyVars   == <<providerApiKeys, providerKeyIndex, geminiClient, opencodeClient>>
cacheVars == <<responseCache, timers, storeLog>>
vars      == <<MAX_RETRIES, MODEL_MAPPING, MODEL_PROVIDER, FALLBACK_MAPPING,
               providerApiKeys, providerKeyIndex, geminiClient, opencodeClient,
               responseCache, timers, now, reqs, nextId, storeLog, adminOps,
               users, issued, customProviders, lastCall, lastUserOp,
               activeDeviceFlows, pendingPolls, deviceCodes, tokenRequests,
               tokensIssued, lastPoll, sessions, messageHistory, lastCleanup,
               namedProvider, geminiClientKey>>
deviceVars  == <<activeDeviceFlows, pendingPolls, deviceCodes, tokenRequests,
                 tokensIssued, lastPoll>>
sessionVars == <<sessions, messageHistory, lastCleanup>>
auxVars     == <<deviceVars, sessionVars, namedProvider, geminiClientKey>>
authVars  == <<users, issued, customProviders, lastCall, lastUserOp>>

(***************************************************************************)
(* Bounds of the model.                                                    *)
(***************************************************************************)
MaxRetriesSetting == 3      \* largest MAX_RETRIES setting explored
MaxRequests       == 3      \* requests per behaviour
MaxAdminOps       == 1      \* admin operations per behaviour
MaxTime           == 3      \* last clock tick
MaxFailures       == 1      \* requests that meet an upstream failure (cache specification)
MaxChunks         == 2      \* chunks an upstream stream delivers

RetrySettings == 0..MaxRetriesSetting
ReqIds        == 1..MaxRequests

(***************************************************************************)
(* Names.  The tables of the source are cut down to a few entries of each  *)
(* kind; the names are the source's.                                       *)
(***************************************************************************)
NoModel == "none"

Targets == {"deepseek/deepseek-r1-0528:free", "qwen/qwen3-235b-a22b:free",
            "mistralai/mistral-embed:free", "gemini-1.5-flash",
            "opencode/minimax-m2.5-free:free"}

ClientNames == {"gpt-4", "gpt-4-turbo", "gpt-4o", "text-embedding-ada-002",
                "gemini-1.5-flash", "opencode-minimax-m2.5", "default"}

Providers == {"openrouter", "gemini"}

InitModelMapping ==
    [n \in ClientNames |->
        CASE n = "gpt-4"                  -> "deepseek/deepseek-r1-0528:free"
          [] n = "gpt-4-turbo"            -> "deepseek/deepseek-r1-0528:free"
          [] n = "gpt-4o"                 -> "qwen/qwen3-235b-a22b:free"
          [] n = "text-embedding-ada-002" -> "mistralai/mistral-embed:free"
          [] n = "gemini-1.5-flash"       -> "gemini-1.5-flash"
          [] n = "opencode-minimax-m2.5"    -> "opencode/minimax-m2.5-free:free"
          [] OTHER                        -> "deepseek/deepseek-r1-0528:free"]

InitModelProvider ==
    [t \in Targets |->
        CASE t = "gemini-1.5-flash"         -> "gemini"
          [] t = "opencode/minimax-m2.5-free:free" -> "opencode"
          [] OTHER                          -> "none"]

InitFallbackMapping ==
    [t \in Targets |->
        CASE t = "deepseek/deepseek-r1-0528:free" -> "qwen/qwen3-235b-a22b:free"
          [] t = "opencode/minimax-m2.5-free:free"       -> "deepseek/deepseek-r1-0528:free"
          [] OTHER                                -> NoModel]

(***************************************************************************)
(* Requests.                                                               *)
(***************************************************************************)
UserMsg   == <<[role |-> "user", content |-> "hi"]>>
SystemMsg == <<[role |-> "system", content |-> "be brief"]>>

\* stands for a request body that has no `messages` field
MissingMessages == <<[role |-> "undefined", content |-> "undefined"]>>

NoResponse == [status |-> 0, kind |-> "none"]

NoKey == "null"

IdleReq ==
    [pc |-> "idle", endpoint |-> "none", requestedModel |-> "none",
     messages |-> <<>>, stream |-> FALSE, options |-> <<>>,
     executor |-> "none", currentModel |-> NoModel, retries |-> 0,
     modelFallbacks |-> <<>>, cacheKey |-> <<>>,
     calls |-> <<>>, cycleCalls |-> 0, attempts |-> 0,
     cycles |-> [t \in Targets |-> 0],
     lastError |-> "none", observed |-> "none", response |-> NoResponse,
     hit |-> FALSE, lookupAt |-> 0, seenStores |-> {}, unconfigured |-> FALSE,
     events |-> <<>>, conn |-> "open", goneAt |-> -1, resolved |-> NoModel, waits |-> <<>>,
     apiKey |-> NoKey, callKeys |-> <<>>, sessionIds |-> <<>>]

(***************************************************************************)
(* Pure helpers of the gateway.                                            *)
(***************************************************************************)

\* MODEL_MAPPING is a plain object literal: a property read that finds no own
\* property continues on Object.prototype, whose members are functions
\* (truthy, not strings).
InheritedKeys == {"constructor", "toString"}

InheritedValue(name) ==
    IF name = "constructor" THEN "[Function: Object]" ELSE "[Function: toString]"

FunctionValues == {InheritedValue(k) : k \in InheritedKeys}

\* MODEL_MAPPING[name]: own property, inherited property or undefined
\* (NoModel)
MappingLookup(name) ==
    IF name \in DOMAIN MODEL_MAPPING THEN MODEL_MAPPING[name]
    ELSE IF name \in InheritedKeys THEN InheritedValue(name)
    ELSE NoModel

\* const model = MODEL_MAPPING[requestedModel] || MODEL_MAPPING.default
ResolveModel(name) ==
    IF MappingLookup(name) # NoModel THEN MappingLookup(name)
    ELSE MODEL_MAPPING["default"]

\* const model = MODEL_MAPPING[requestedModel] || MODEL_MAPPING['text-embedding-ada-002']
ResolveEmbeddingModel(name) ==
    IF MappingLookup(name) # NoModel THEN MappingLookup(name)
    ELSE MODEL_MAPPING["text-embedding-ada-002"]

\* const provider = MODEL_PROVIDER[model] || 'openrouter'
ProviderOf(model) ==
    IF model \in DOMAIN MODEL_PROVIDER /\ MODEL_PROVIDER[model] # "none"
    THEN MODEL_PROVIDER[model] ELSE "openrouter"

\* JSON.stringify({ model, messages, options }): the three inputs in order;
\* a function-valued property is left out of the text
generateCacheKey(model, messages, options) ==
    <<IF model \in FunctionValues THEN "" ELSE model, messages, options>>

\* messages.filter(m => m.role === 'user').pop() is defined
HasUserMessage(messages) ==
    \E i \in 1..Len(messages) : messages[i].role = "user"


\* A key lookup without the empty-pool test: an empty pool yields a usable
\* placeholder instead of null.
getProviderApiKeyUnchecked(providerName) ==
    LET keys  == providerApiKeys[providerName]
        index == providerKeyIndex[providerName]
    IN IF index < Len(keys) THEN keys[index + 1] ELSE "undefined"

\* getProviderApiKey: the key handed out (null for an empty pool)
getProviderApiKey(providerName) ==
    LET keys  == providerApiKeys[providerName]
        index == providerKeyIndex[providerName]
    IN IF Len(keys) = 0 THEN NoKey
       ELSE IF index < Len(keys) THEN keys[index + 1] ELSE NoKey

\* getProviderApiKey: the round-robin index it leaves behind
NextKeyIndex(providerName) ==
    LET keys  == providerApiKeys[providerName]
        index == providerKeyIndex[providerName]
    IN IF Len(keys) = 0 THEN index ELSE (index + 1) % Len(keys)

(***************************************************************************)
(* Upstream failures and their classification (classifyError).             *)
(***************************************************************************)
HttpErrors     == {"http400", "http401", "http403", "http429", "http500"}
NetworkErrors  == {"timeout", "refused"}
UpstreamErrors == HttpErrors \cup NetworkErrors

HttpStatus(err) ==
    CASE err = "http400" -> 400
      [] err = "http401" -> 401
      [] err = "http403" -> 403
      [] err = "http429" -> 429
      [] err = "http500" -> 500
      [] OTHER           -> 0

classifyError(err) ==
    IF err \in HttpErrors THEN
        LET status == HttpStatus(err) IN
        IF status = 401 \/ status = 403 THEN
            [code |-> "authentication_error", statusCode |-> status, type |-> "auth_failure"]
        ELSE IF status = 429 THEN
            [code |-> "rate_limit_error", statusCode |-> 429, type |-> "rate_limit"]
        ELSE IF status >= 500 THEN
            [code |-> "provider_error", statusCode |-> status, type |-> "server_error"]
        ELSE IF status = 400 THEN
            [code |-> "invalid_request", statusCode |-> 400, type |-> "validation_error"]
        ELSE
            [code |-> "api_error", statusCode |-> status, type |-> "http_error"]
    ELSE IF err = "timeout" THEN
        [code |-> "timeout_error", statusCode |-> 504, type |-> "network_error"]
    ELSE IF err = "refused" THEN
        [code |-> "connection_error", statusCode |-> 503, type |-> "network_error"]
    ELSE IF err = "opencode_client_missing" THEN
        [code |-> "opencode_not_configured", statusCode |-> 503, type |-> "configuration_error"]
    ELSE IF err = "nouser" THEN
        [code |-> "invalid_request", statusCode |-> 400, type |-> "validation_error"]
    ELSE
        [code |-> "unknown_error", statusCode |-> 500, type |-> "internal_error"]

\* handleError: the JSON error body and status sent to the caller
handleError(err, provider) ==
    LET errorInfo == classifyError(err) IN
    [status |-> errorInfo.statusCode, kind |-> "error",
     type |-> errorInfo.type, code |-> errorInfo.code,
     originalError |-> err, provider |-> provider]

\* res.status(503).json({ error: { type: 'configuration_error', code } })
ConfigurationError(code) ==
    [status |-> 503, kind |-> "error", type |-> "configuration_error",
     code |-> code]

(***************************************************************************)
(* The retry executors: fetchOpenRouterWithRetry, fetchGeminiWithRetry and *)
(* fetchOpencodeWithRetry.  A request record q carries the arguments of    *)
(* the current recursive call (currentModel, retries, modelFallbacks).     *)
(***************************************************************************)
RETRY_DELAY == 1
CACHE_TTL   == 2

SeqElems(s) == {s[i] : i \in 1..Len(s)}

ExhaustedOffByOne(retries) == retries >= MAX_RETRIES

\* if (retries >= MAX_RETRIES - 1)
Exhausted(retries) == retries >= MAX_RETRIES - 1

\* const fallbackModel = FALLBACK_MAPPING[currentModel]
FallbackOf(model) ==
    IF model \in DOMAIN FALLBACK_MAPPING THEN FALLBACK_MAPPING[model] ELSE NoModel

\* variant that takes a fallback without looking at the models already used
FallbackUsableAlways(q) ==
    FallbackOf(q.currentModel) # NoModel

\* if (fallbackModel && !modelFallbacks.includes(fallbackModel))
FallbackUsable(q) ==
    /\ FallbackOf(q.currentModel) # NoModel
    /\ FallbackOf(q.currentModel) \notin SeqElems(q.modelFallbacks)

\* The Gemini and OpenCode executors look for the last user message inside
\* their try block and throw before calling upstream when there is none;
\* the OpenRouter executor posts whatever it was given.
MakesUpstreamCall(q) ==
    q.executor = "openrouter" \/ HasUserMessage(q.messages)

\* Entry of an executor call: the try block starts and, unless it throws
\* first, the upstream call is issued.
(***************************************************************************)
(* The session an OpenCode executor call works on.  Both OpenCode          *)
(* executors start their try block with                                    *)
(*   options.sessionId || await sessionManager.createSession()             *)
(* and add the last user message to that session's history.                *)
(***************************************************************************)
\* the ids generateSessionId can return (a timestamp and a random suffix)
GeneratedIds == {"session-1", "session-2", "session-3", "session-4"}

\* options.sessionId: a field of the request body, "none" when absent
OptionSessionId(options) ==
    IF \E i \in 1..Len(options) : options[i][1] = "sessionId"
    THEN options[CHOOSE i \in 1..Len(options) : options[i][1] = "sessionId"][2]
    ELSE "none"

\* generateSessionId: an id not in use
FreshSessionId ==
    CHOOSE i \in GeneratedIds : i \notin DOMAIN sessions \cup DOMAIN messageHistory

\* const sessionId = options.sessionId || await sessionManager.createSession()
SessionOfAttempt(q) ==
    IF OptionSessionId(q.options) # "none" THEN OptionSessionId(q.options)
    ELSE FreshSessionId

\* SessionManager.sessions after createSession returned sessionId
SessionsWith(sess, sessionId) ==
    (sessionId :> [created |-> now, lastActivity |-> now, status |-> "active"]) @@ sess

\* SessionManager.sessions after updateSessionActivity(sessionId)
SessionsTouched(sess, sessionId) ==
    IF sessionId \in DOMAIN sess THEN [sess EXCEPT ![sessionId].lastActivity = now]
    ELSE sess

\* SessionManager.messageHistory after addMessage(sessionId, role, ...)
HistoryWith(hist, sessionId, role) ==
    (sessionId :> Append(IF sessionId \in DOMAIN hist THEN hist[sessionId] ELSE <<>>,
                         [role |-> role, timestamp |-> now]))
        @@ hist

\* what the start of an OpenCode try block does to the session manager, for
\* the attempt request r has just begun (none: nothing)
OpencodeTryBlock(r) ==
    IF Len(reqs'[r].sessionIds) > Len(reqs[r].sessionIds)
    THEN LET q         == reqs'[r]
             sessionId == q.sessionIds[Len(q.sessionIds)]
             created   == OptionSessionId(q.options) = "none"
             sess      == IF created THEN SessionsWith(sessions, sessionId) ELSE sessions
             hist      == IF created THEN (sessionId :> <<>>) @@ messageHistory
                          ELSE messageHistory
         IN IF HasUserMessage(q.messages)
            THEN /\ sessions' = SessionsTouched(sess, sessionId)
                 /\ messageHistory' = HistoryWith(hist, sessionId, "user")
            ELSE /\ sessions' = sess
                 /\ messageHistory' = hist
    ELSE UNCHANGED <<sessions, messageHistory>>

\* sessionManager.addMessage(sessionId, 'assistant', assistantContent) after
\* opencodeClient.session.prompt of request q returned
OpencodeAnswered(q) ==
    IF q.executor = "opencode"
    THEN LET sessionId == q.sessionIds[Len(q.sessionIds)] IN
         /\ sessions' = SessionsTouched(sessions, sessionId)
         /\ messageHistory' = HistoryWith(messageHistory, sessionId, "assistant")
    ELSE UNCHANGED <<sessions, messageHistory>>

\* the key an upstream call of request q is authenticated with: the
\* Authorization header the handler built, or the key inside the Gemini client
KeyOfCall(q) == IF q.executor = "gemini" THEN geminiClientKey ELSE q.apiKey

BeginAttempt(q) ==
    [q EXCEPT !.pc = "calling",
              !.attempts = @ + 1,
              !.calls = IF MakesUpstreamCall(q) THEN Append(@, q.currentModel) ELSE @,
              !.callKeys = IF MakesUpstreamCall(q) THEN Append(@, KeyOfCall(q)) ELSE @,
              !.sessionIds = IF q.executor = "opencode"
                             THEN Append(@, SessionOfAttempt(q)) ELSE @,
              !.cycleCalls = IF MakesUpstreamCall(q) THEN @ + 1 ELSE @]

\* variant that doubles the wait once more
WaitTimeDoubled(retries) == RETRY_DELAY * (2 ^ (retries + 1))

\* const waitTime = RETRY_DELAY * Math.pow(2, retries)
WaitTime(retries) == RETRY_DELAY * (2 ^ retries)

\* await delay(waitTime): the request sleeps; the wait is noted with the
\* number of fallback switches made so far
Delay(q, err) ==
    [q EXCEPT !.pc = "waiting", !.lastError = err,
              !.waits = Append(@, [cycle |-> Len(q.modelFallbacks),
                                   ms    |-> WaitTime(q.retries)])]

ThrownErrorStale(q, err) == IF q.lastError # "none" THEN q.lastError ELSE err

\* throw error: the error rethrown is the one caught in this call
ThrownError(q, err) == err

\* catch block of fetchOpenRouterWithRetry
CatchOpenRouter(q, err) ==
    IF Exhausted(q.retries) THEN
        IF FallbackUsable(q) THEN
            LET fallbackModel == FallbackOf(q.currentModel) IN
            BeginAttempt([q EXCEPT !.currentModel = fallbackModel,
                                   !.retries = 0,
                                   !.modelFallbacks = Append(@, q.currentModel),
                                   !.cycleCalls = 0,
                                   !.attempts = 0,
                                   !.cycles[fallbackModel] = @ + 1,
                                   !.lastError = err])
        ELSE [q EXCEPT !.pc = "thrown", !.lastError = ThrownError(q, err)]
    ELSE Delay(q, err)

\* catch block of fetchGeminiWithRetry and of fetchOpencodeWithRetry
CatchNoFallback(q, err) ==
    IF Exhausted(q.retries)
    THEN [q EXCEPT !.pc = "thrown", !.lastError = ThrownError(q, err)]
    ELSE Delay(q, err)

CatchBlockClassified(q, err) ==
    IF classifyError(err).code \in {"provider_error", "timeout_error", "connection_error"}
    THEN IF q.executor = "openrouter" THEN CatchOpenRouter(q, err)
         ELSE CatchNoFallback(q, err)
    ELSE [q EXCEPT !.pc = "thrown", !.lastError = err]

\* the catch (error) clause of each executor takes every error
CatchBlock(q, err) ==
    IF q.executor = "openrouter" THEN CatchOpenRouter(q, err)
    ELSE CatchNoFallback(q, err)

\* if (!geminiClient) throw ... / if (!opencodeClient) throw ... on entry of
\* fetchGeminiWithRetry / fetchOpencodeWithRetry, outside their try block
ClientMissing(q) ==
    \/ q.executor = "gemini" /\ ~geminiClient
    \/ q.executor = "opencode" /\ ~opencodeClient

ClientMissingError(q) ==
    IF q.executor = "opencode" THEN "opencode_client_missing" ELSE "gemini_client_missing"

\* provider label the handler's catch passes to handleError
HandlerProvider(q) ==
    IF q.endpoint = "embeddings" THEN "unknown" ELSE q.executor

\* the body the chat handler builds from a successful executor result
OpenAIResponse(q) ==
    [status |-> 200, kind |-> "completion", id |-> nextId,
     model |-> q.requestedModel, choices |-> q.currentModel]

CacheSet(key, value) == (key :> value) @@ responseCache

CacheDelete(key) == [k \in (DOMAIN responseCache) \ {key} |-> responseCache[k]]

\* The provider a request is routed to has no key (providerApiKeys) or, for
\* OpenCode, no client: recorded when the handler routes the request.
Unconfigured(provider) ==
    IF provider = "opencode" THEN ~opencodeClient
    ELSE Len(providerApiKeys[provider]) = 0

\* variant of the Gemini branch that hands a streaming request to the executor
GeminiRefusesStreamNever(stream) == FALSE

\* Gemini branch: if (stream) return res.status(501)
GeminiRefusesStream(stream) == stream

\* variant of the cache lookup that does not look at the stream flag
CacheLookupAppliesAnyRequest(cacheKey, stream) ==
    cacheKey \in DOMAIN responseCache

\* if (responseCache.has(cacheKey) && !stream)
CacheLookupApplies(cacheKey, stream) ==
    cacheKey \in DOMAIN responseCache /\ ~stream

(***************************************************************************)
(* POST /v1/chat/completions up to its first await.                        *)
(***************************************************************************)
ChatStart(r, requestedModel, messages, stream, options) ==
    /\ reqs[r].pc = "idle"
    /\ LET model    == ResolveModel(requestedModel)
           provider == ProviderOf(model)
           cacheKey == generateCacheKey(model, messages, options)
           base     == [IdleReq EXCEPT !.endpoint = "chat",
                                       !.requestedModel = requestedModel,
                                       !.messages = messages,
                                       !.stream = stream,
                                       !.options = options,
                                       !.cacheKey = cacheKey,
                                       !.resolved = model,
                                       !.lookupAt = now,
                                       !.seenStores = {s \in storeLog : s.key = cacheKey}]
           headerKey(ex) == IF ex = "openrouter" THEN getProviderApiKey("openrouter")
                            ELSE NoKey
           start(ex) == BeginAttempt([base EXCEPT !.executor = ex,
                                                  !.apiKey = headerKey(ex),
                                                  !.currentModel = model,
                                                  !.cycles[model] = 1,
                                                  !.unconfigured = Unconfigured(provider)])
           connect(ex) == [base EXCEPT !.pc = "connecting", !.executor = ex,
                                       !.apiKey = headerKey(ex),
                                       !.sessionIds = IF ex = "opencode"
                                                      THEN <<SessionOfAttempt(base)>> ELSE <<>>,
                                       !.callKeys = IF ex = "openrouter" \/ HasUserMessage(messages)
                                                    THEN <<headerKey(ex)>> ELSE <<>>,
                                       !.currentModel = model,
                                       !.unconfigured = Unconfigured(provider),
                                       !.calls = IF ex = "openrouter" \/ HasUserMessage(messages)
                                                 THEN <<model>> ELSE <<>>]
           reply(resp) == [base EXCEPT !.pc = "done", !.response = resp,
                                       !.conn = "closed",
                                       !.unconfigured = Unconfigured(provider)]
           \* messages.length throws a TypeError; the outer catch evaluates
           \* `provider`, which is not in scope there, and throws in turn: the
           \* async handler rejects and no response is ever written
           crash == [base EXCEPT !.pc = "crashed", !.cacheKey = <<>>,
                                 !.seenStores = {}]
       IN
       IF messages = MissingMessages THEN
            /\ reqs' = [reqs EXCEPT ![r] = crash]
            /\ UNCHANGED providerKeyIndex
       ELSE IF CacheLookupApplies(cacheKey, stream) THEN
            /\ reqs' = [reqs EXCEPT ![r] = [reply(responseCache[cacheKey]) EXCEPT !.hit = TRUE]]
            /\ UNCHANGED providerKeyIndex
       ELSE IF provider = "gemini" THEN
            /\ UNCHANGED providerKeyIndex
            /\ reqs' = [reqs EXCEPT ![r] =
                  IF ~geminiClient THEN reply(ConfigurationError("gemini_not_configured"))
                  ELSE IF GeminiRefusesStream(stream)
                  THEN reply([status |-> 501, kind |-> "error",
                                             type |-> "not_implemented",
                                             code |-> "streaming_not_supported"])
                  ELSE start("gemini")]
       ELSE IF provider = "opencode" THEN
            /\ UNCHANGED providerKeyIndex
            /\ reqs' = [reqs EXCEPT ![r] =
                  IF ~opencodeClient THEN reply(ConfigurationError("opencode_not_configured"))
                  ELSE IF stream THEN connect("opencode")
                  ELSE start("opencode")]
       ELSE
            /\ providerKeyIndex' = [providerKeyIndex EXCEPT
                                        !["openrouter"] = NextKeyIndex("openrouter")]
            /\ reqs' = [reqs EXCEPT ![r] =
                  IF getProviderApiKey("openrouter") = NoKey
                  THEN reply(ConfigurationError("openrouter_not_configured"))
                  ELSE IF stream THEN connect("openrouter")
                  ELSE start("openrouter")]
    /\ OpencodeTryBlock(r)
    /\ UNCHANGED <<cfgVars, providerApiKeys, geminiClient, opencodeClient,
                   cacheVars, now, nextId, adminOps, authVars,
                   deviceVars, lastCleanup, namedProvider,
                   geminiClientKey>>

(***************************************************************************)
(* POST /v1/embeddings up to its first await.                              *)
(***************************************************************************)
EmbeddingsStart(r, requestedModel) ==
    /\ reqs[r].pc = "idle"
    /\ LET model == ResolveEmbeddingModel(requestedModel)
           base  == [IdleReq EXCEPT !.endpoint = "embeddings",
                                    !.requestedModel = requestedModel,
                                    !.resolved = model,
                                    !.lookupAt = now]
       IN reqs' = [reqs EXCEPT ![r] =
             IF getProviderApiKey("openrouter") = NoKey
             THEN [base EXCEPT !.pc = "done", !.conn = "closed",
                               !.unconfigured = Unconfigured("openrouter"),
                               !.response = ConfigurationError("openrouter_not_configured")]
             ELSE BeginAttempt([base EXCEPT !.executor = "openrouter",
                                            !.apiKey = getProviderApiKey("openrouter"),
                                            !.currentModel = model,
                                            !.unconfigured = Unconfigured("openrouter"),
                                            !.cycles[model] = 1])]
    /\ providerKeyIndex' = [providerKeyIndex EXCEPT
                                !["openrouter"] = NextKeyIndex("openrouter")]
    /\ UNCHANGED <<cfgVars, providerApiKeys, geminiClient, opencodeClient,
                   cacheVars, now, nextId, adminOps, authVars,
                   auxVars>>

(***************************************************************************)
(* An executor's upstream call fails (or its try block throws): the catch  *)
(* block runs; when it rethrows, the handler's catch answers the caller    *)
(* through handleError.                                                    *)
(***************************************************************************)
AttemptFails(r, err) ==
    /\ reqs[r].pc = "calling"
    /\ IF MakesUpstreamCall(reqs[r]) THEN err \in UpstreamErrors ELSE err = "nouser"
    /\ LET q == [CatchBlock(reqs[r], err) EXCEPT !.observed = err] IN
       reqs' = [reqs EXCEPT ![r] =
          IF q.pc = "thrown"
          THEN [q EXCEPT !.pc = "done", !.conn = "closed",
                         !.response = handleError(q.lastError, HandlerProvider(q))]
          ELSE q]
    /\ UNCHANGED <<cfgVars, keyVars, cacheVars, now, nextId, adminOps, authVars,
                   auxVars>>

(***************************************************************************)
(* await delay(waitTime) returns: the executor calls itself with           *)
(* retries + 1.                                                            *)
(***************************************************************************)
BackoffDone(r) ==
    /\ reqs[r].pc = "waiting"
    /\ LET q == [reqs[r] EXCEPT !.retries = @ + 1] IN
       reqs' = [reqs EXCEPT ![r] =
          IF ClientMissing(q)
          THEN [q EXCEPT !.pc = "done", !.conn = "closed",
                         !.lastError = ClientMissingError(q),
                         !.observed = ClientMissingError(q),
                         !.response = handleError(ClientMissingError(q), HandlerProvider(q))]
          ELSE BeginAttempt(q)]
    /\ OpencodeTryBlock(r)
    /\ UNCHANGED <<cfgVars, keyVars, cacheVars, now, nextId, adminOps, authVars,
                   deviceVars, lastCleanup, namedProvider,
                   geminiClientKey>>

(***************************************************************************)
(* An executor's upstream call succeeds: the handler builds the OpenAI     *)
(* response; the chat handler stores it and arms the expiry timer.         *)
(***************************************************************************)
AttemptSucceeds(r) ==
    /\ reqs[r].pc = "calling"
    /\ MakesUpstreamCall(reqs[r])
    /\ LET q    == reqs[r]
           resp == OpenAIResponse(q)
       IN /\ reqs' = [reqs EXCEPT ![r] = [q EXCEPT !.pc = "done", !.conn = "closed",
                                                   !.response = resp]]
          /\ IF q.endpoint = "chat"
             THEN /\ responseCache' = CacheSet(q.cacheKey, resp)
                  /\ timers' = timers \cup {[key |-> q.cacheKey, due |-> now + CACHE_TTL]}
                  /\ storeLog' = storeLog \cup {[key |-> q.cacheKey, at |-> now, resp |-> resp]}
             ELSE UNCHANGED cacheVars
    /\ nextId' = nextId + 1
    /\ OpencodeAnswered(reqs[r])
    /\ UNCHANGED <<cfgVars, keyVars, now, adminOps, authVars,
                   deviceVars, lastCleanup, namedProvider,
                   geminiClientKey>>

(***************************************************************************)
(* The streaming branches of POST /v1/chat/completions.                    *)
(***************************************************************************)
\* handleStreamingError followed by res.end(): what the caller receives
handleStreamingError(q, err) ==
    [q EXCEPT !.pc = "done",
              !.observed = err,
              !.response = [status |-> classifyError(err).statusCode, kind |-> "stream",
                            code |-> classifyError(err).code],
              !.events = IF q.conn = "open" THEN @ \o <<"error", "[DONE]">> ELSE @,
              !.conn = "closed"]

\* the awaited upstream request of a streaming call is rejected (OpenRouter:
\* axios.post; OpenCode: the generator throws before its first yield)
StreamConnectFails(r, err) ==
    /\ reqs[r].pc = "connecting"
    /\ IF reqs[r].calls # <<>> THEN err \in UpstreamErrors ELSE err = "nouser"
    /\ reqs' = [reqs EXCEPT ![r] = handleStreamingError(reqs[r], err)]
    /\ UNCHANGED <<cfgVars, keyVars, cacheVars, now, nextId, adminOps, authVars,
                   auxVars>>

\* the upstream answers: OpenRouter's body is piped to the caller;
\* streamOpencodeResponse yields its two chunks, the handler appends
\* data: [DONE] and ends the response
StreamConnects(r) ==
    /\ reqs[r].pc = "connecting"
    /\ reqs[r].calls # <<>>
    /\ reqs' = [reqs EXCEPT ![r] =
          IF reqs[r].executor = "opencode"
          THEN [@ EXCEPT !.pc = "done", !.conn = "closed",
                         !.response = [status |-> 200, kind |-> "stream", code |-> "ok"],
                         !.events = <<"chunk", "chunk", "[DONE]">>]
          ELSE [@ EXCEPT !.pc = "streaming",
                         !.response = [status |-> 200, kind |-> "stream", code |-> "ok"]]]
    /\ OpencodeAnswered(reqs[r])
    /\ UNCHANGED <<cfgVars, keyVars, cacheVars, now, nextId, adminOps, authVars,
                   deviceVars, lastCleanup, namedProvider,
                   geminiClientKey>>

\* openRouterResponse.data.pipe(res): a chunk of the upstream body is forwarded
StreamChunk(r) ==
    /\ reqs[r].pc = "streaming"
    /\ Len(reqs[r].events) < MaxChunks
    /\ reqs' = [reqs EXCEPT ![r].events = Append(@, "chunk")]
    /\ UNCHANGED <<cfgVars, keyVars, cacheVars, now, nextId, adminOps, authVars,
                   auxVars>>

\* pipe(): the upstream body ends, so the piped response is ended
StreamEnds(r) ==
    /\ reqs[r].pc = "streaming"
    /\ reqs' = [reqs EXCEPT ![r].pc = "done", ![r].conn = "closed"]
    /\ UNCHANGED <<cfgVars, keyVars, cacheVars, now, nextId, adminOps, authVars,
                   auxVars>>

\* variant of the relay that asks the upstream again when the body it is
\* forwarding fails
StreamBreaksReconnects(r) ==
    /\ reqs[r].pc = "streaming"
    /\ reqs' = [reqs EXCEPT ![r].pc = "connecting", ![r].observed = "aborted",
                             ![r].calls = Append(@, reqs[r].currentModel)]
    /\ UNCHANGED <<cfgVars, keyVars, cacheVars, now, nextId, adminOps, authVars,
                   auxVars>>

\* pipe(): the upstream body fails before its end.  pipe() forwards neither
\* the error nor an end, and the handler's try block was left when pipe()
\* returned: nothing is written and the response stays open.
StreamBreaks(r) ==
    /\ reqs[r].pc = "streaming"
    /\ reqs' = [reqs EXCEPT ![r].pc = "hung", ![r].observed = "aborted"]
    /\ UNCHANGED <<cfgVars, keyVars, cacheVars, now, nextId, adminOps, authVars,
                   auxVars>>

(***************************************************************************)
(* Authentication (auth.js, middleware.js, users.js).  A token is what the *)
(* request carries in its auth_token cookie or Authorization header: none, *)
(* a JWT signed by the gateway for a user id, or one that does not verify  *)
(* (bad signature, expired).                                               *)
(***************************************************************************)
UserIds == {"github_1", "github_2"}

LoginOf(userId) == IF userId = "github_1" THEN "admin-user" ELSE "perms-user"

NoToken == [kind |-> "missing", userId |-> ""]

Jwt(userId) == [kind |-> "jwt", userId |-> userId]

BadToken(userId) == [kind |-> "invalid", userId |-> userId]

AdminToken == Jwt("github_1")

\* GitHubAuthManager.verifyJWT: the decoded payload's userId, or null
verifyJWT(token) == IF token.kind = "jwt" THEN token.userId ELSE "null"

\* UserManager.getUserById(userId) is not null
UserExists(userId) == userId \in DOMAIN users

\* variant of createAuthMiddleware that trusts a verified token without
\* looking the user up in the store
authMiddlewareNoLookup(token) ==
    IF token.kind = "missing" THEN 401
    ELSE IF verifyJWT(token) = "null" THEN 401
    ELSE 200

\* createAuthMiddleware: 401 without a token, with a token that does not
\* verify, or for a user id absent from the store; otherwise next() (200)
authMiddleware(token) ==
    IF token.kind = "missing" THEN 401
    ELSE IF verifyJWT(token) = "null" THEN 401
    ELSE IF ~UserExists(verifyJWT(token)) THEN 401
    ELSE 200

\* req.user as the handler behind the middleware sees it
reqUser(token) == IF authMiddleware(token) = 200 THEN verifyJWT(token) ELSE "none"

\* the record of a /config request: its route, the token it carried, req.user,
\* its status and, for clear-cache, the number of entries the reply reports
\* (else -1)
Answer(route, token, user, status, removed) ==
    [route |-> route, token |-> token, user |-> user, status |-> status,
     removed |-> removed]

(***************************************************************************)
(* POST /config/fallbacks                                                  *)
(***************************************************************************)
\* the handler of POST /config/fallbacks
FallbacksRoute(token, primaryModel, fallbackModel, action) ==
    /\ lastCall' = Answer("/config/fallbacks", token, reqUser(token), authMiddleware(token), -1)
    /\ FALLBACK_MAPPING' =
          IF authMiddleware(token) # 200 THEN FALLBACK_MAPPING
          ELSE IF action = "remove"
          THEN [FALLBACK_MAPPING EXCEPT ![primaryModel] = NoModel]
          ELSE [FALLBACK_MAPPING EXCEPT ![primaryModel] = fallbackModel]
    /\ UNCHANGED <<MAX_RETRIES, MODEL_MAPPING, MODEL_PROVIDER, keyVars,
                   cacheVars, now, reqs, nextId,
                   users, issued, customProviders, lastUserOp,
                   auxVars>>

\* POST /config/fallbacks, counted against the admin operations of a behaviour
ConfigFallbacks(token, primaryModel, fallbackModel, action) ==
    /\ adminOps < MaxAdminOps
    /\ adminOps' = adminOps + 1
    /\ FallbacksRoute(token, primaryModel, fallbackModel, action)

\* POST /config/fallbacks as often as the administrator likes
ManageFallbacks(primaryModel, fallbackModel, action) ==
    /\ FallbacksRoute(AdminToken, primaryModel, fallbackModel, action)
    /\ UNCHANGED adminOps

(***************************************************************************)
(* POST /config/providers                                                  *)
(***************************************************************************)
RemoveAt(s, i) == [j \in 1..(Len(s) - 1) |-> IF j < i THEN s[j] ELSE s[j + 1]]

IndexOf(s, x) ==
    IF x \in SeqElems(s) THEN CHOOSE i \in 1..Len(s) :
                                  s[i] = x /\ \A j \in 1..(i - 1) : s[j] # x
    ELSE 0

\* the handler of POST /config/providers
ProvidersRoute(token, provider, apiKey, action) ==
    /\ lastCall' = Answer("/config/providers", token, reqUser(token), authMiddleware(token), -1)
    /\ LET keys == providerApiKeys[provider] IN
       IF authMiddleware(token) # 200
       THEN UNCHANGED <<providerApiKeys, geminiClient, geminiClientKey>>
       ELSE IF action = "remove" THEN
            LET left == IF IndexOf(keys, apiKey) > 0
                        THEN RemoveAt(keys, IndexOf(keys, apiKey)) ELSE keys
            IN /\ providerApiKeys' = [providerApiKeys EXCEPT ![provider] = left]
               /\ geminiClient' = IF provider = "gemini" /\ Len(left) = 0
                                  THEN FALSE ELSE geminiClient
               /\ geminiClientKey' = IF provider = "gemini" /\ Len(left) = 0
                                     THEN NoKey ELSE geminiClientKey
       ELSE
            /\ providerApiKeys' = [providerApiKeys EXCEPT ![provider] =
                                       IF apiKey \in SeqElems(keys) THEN keys
                                       ELSE Append(keys, apiKey)]
            /\ geminiClient' = IF apiKey \notin SeqElems(keys) /\ provider = "gemini"
                               THEN TRUE ELSE geminiClient
            /\ geminiClientKey' =
                  IF apiKey \notin SeqElems(keys) /\ provider = "gemini" /\ ~geminiClient
                  THEN apiKey ELSE geminiClientKey
    /\ UNCHANGED <<cfgVars, providerKeyIndex, opencodeClient, cacheVars, now,
                   reqs, nextId, users, issued, customProviders, lastUserOp,
                   deviceVars, sessionVars, namedProvider>>

\* POST /config/providers, counted against the admin operations of a behaviour
ConfigProviders(token, provider, apiKey, action) ==
    /\ adminOps < MaxAdminOps
    /\ adminOps' = adminOps + 1
    /\ ProvidersRoute(token, provider, apiKey, action)

\* POST /config/providers as often as the administrator likes
ManageKeys(provider, apiKey, action) ==
    /\ ProvidersRoute(AdminToken, provider, apiKey, action)
    /\ UNCHANGED adminOps

(***************************************************************************)
(* POST /config/models: provider is "none" when the body has no provider.  *)
(***************************************************************************)
ConfigModels(token, openaiModel, targetModel, provider) ==
    /\ adminOps < MaxAdminOps
    /\ adminOps' = adminOps + 1
    /\ lastCall' = Answer("/config/models", token, reqUser(token), authMiddleware(token), -1)
    /\ MODEL_MAPPING' =
          IF authMiddleware(token) # 200 THEN MODEL_MAPPING
          ELSE (openaiModel :> targetModel) @@ MODEL_MAPPING
    /\ MODEL_PROVIDER' =
          IF authMiddleware(token) # 200 \/ provider = "none" THEN MODEL_PROVIDER
          ELSE IF provider = "gemini" THEN [MODEL_PROVIDER EXCEPT ![targetModel] = "gemini"]
          ELSE [MODEL_PROVIDER EXCEPT ![targetModel] = "none"]
    /\ namedProvider' =
          IF authMiddleware(token) # 200 THEN namedProvider
          ELSE (openaiModel :> provider) @@ namedProvider
    /\ UNCHANGED <<MAX_RETRIES, FALLBACK_MAPPING, keyVars, cacheVars, now, reqs, nextId,
                   users, issued, customProviders, lastUserOp,
                   deviceVars, sessionVars, geminiClientKey>>

(***************************************************************************)
(* Initial state: the gateway after start-up.  The process exits unless    *)
(* OPENROUTER_API_KEY or GEMINI_API_KEY is set.                            *)
(***************************************************************************)
EnvKeys == {[openrouter |-> TRUE,  gemini |-> TRUE],
            [openrouter |-> TRUE,  gemini |-> FALSE],
            [openrouter |-> FALSE, gemini |-> TRUE]}

InitKeys(env) ==
    /\ providerApiKeys = [p \in Providers |->
                            IF p = "openrouter"
                            THEN (IF env.openrouter THEN <<"or-key-1">> ELSE <<>>)
                            ELSE (IF env.gemini THEN <<"gm-key-1">> ELSE <<>>)]
    /\ geminiClient = env.gemini
    /\ geminiClientKey = IF env.gemini THEN "gm-key-1" ELSE NoKey

InitGateway ==
    /\ MODEL_MAPPING = InitModelMapping
    /\ MODEL_PROVIDER = InitModelProvider
    /\ namedProvider = [n \in ClientNames |-> "none"]
    /\ FALLBACK_MAPPING = InitFallbackMapping
    /\ providerKeyIndex = [p \in Providers |-> 0]
    /\ responseCache = <<>>
    /\ timers = {}
    /\ now = 0
    /\ reqs = [r \in ReqIds |-> IdleReq]
    /\ nextId = 1
    /\ storeLog = {}
    /\ adminOps = 0
    /\ users = ("github_1" :> [login |-> LoginOf("github_1"), isAdmin |-> TRUE,
                                permissions |-> <<"read">>])
    /\ issued = {"github_1"}
    /\ customProviders = {}
    /\ lastCall = Answer("none", NoToken, "none", 0, -1)
    /\ lastUserOp = [op |-> "none", key |-> "", isAdmin |-> FALSE,
                     permissions |-> <<>>, result |-> "none"]
    /\ activeDeviceFlows = <<>>
    /\ pendingPolls = [c \in {"dc-1", "dc-2", "invalid-code"} |-> 0]
    /\ deviceCodes = {}
    /\ tokenRequests = 0
    /\ tokensIssued = {}
    /\ lastPoll = [deviceCode |-> "", outcome |-> "none"]
    /\ sessions = <<>>
    /\ messageHistory = <<>>
    /\ lastCleanup = -1

\* the gateway as shipped: createOpencodeClient is not imported (the require
\* is commented out), so the initialisation of the OpenCode client fails
InitCommon ==
    /\ InitGateway
    /\ opencodeClient = FALSE

(***************************************************************************)
(* Specification of the executors: one request, any MAX_RETRIES setting,   *)
(* any pattern of upstream failures, the fallback table edited while the   *)
(* request runs.                                                           *)
(***************************************************************************)
ExecModels   == {"gpt-4", "gemini-1.5-flash", "opencode-minimax-m2.5"}
ExecMessages == {UserMsg, SystemMsg}
ExecKeys     == {"or-key-1", "gm-key-1", "key-2"}
ExecErrors   == {"http400", "http401", "http429", "http500", "timeout", "nouser"}

InitExec ==
    /\ InitCommon
    /\ MAX_RETRIES \in RetrySettings
    /\ \E env \in EnvKeys : InitKeys(env)

NextExec ==
    \/ \E m \in ExecModels, msgs \in ExecMessages : ChatStart(1, m, msgs, FALSE, <<>>)
    \/ EmbeddingsStart(1, "text-embedding-ada-002")
    \/ \E err \in ExecErrors : AttemptFails(1, err)
    \/ BackoffDone(1)
    \/ AttemptSucceeds(1)
    \/ \E p \in Targets, f \in Targets, a \in {"add", "remove"} : ConfigFallbacks(AdminToken, p, f, a)
    \/ \E p \in Providers, k \in ExecKeys, a \in {"add", "remove"} : ConfigProviders(AdminToken, p, k, a)

SpecExec == InitExec /\ [][NextExec]_vars

(***************************************************************************)
(* The clock and the cache expiry timers.  A timer callback runs in the    *)
(* tick in which it falls due, in no fixed order with the request handlers *)
(* that run in that tick.                                                  *)
(***************************************************************************)
Tick ==
    /\ now < MaxTime
    /\ \A t \in timers : now < t.due
    /\ now' = now + 1
    /\ UNCHANGED <<cfgVars, keyVars, cacheVars, reqs, nextId, adminOps, authVars,
                   auxVars>>

\* () => responseCache.delete(cacheKey)
TimerFires ==
    /\ \E t \in timers :
          /\ now >= t.due
          /\ responseCache' = CacheDelete(t.key)
          /\ timers' = timers \ {t}
    /\ UNCHANGED <<cfgVars, keyVars, storeLog, now, reqs, nextId, adminOps, authVars,
                   auxVars>>

(***************************************************************************)
(* POST /config/clear-cache                                                *)
(***************************************************************************)
\* variant of the clear-cache handler that reads responseCache.size after
\* clearing
ClearCacheSizeAfter(token) ==
    /\ adminOps < MaxAdminOps
    /\ adminOps' = adminOps + 1
    /\ lastCall' = Answer("/config/clear-cache", token, reqUser(token), authMiddleware(token),
                          IF authMiddleware(token) # 200 THEN -1 ELSE 0)
    /\ IF authMiddleware(token) # 200 THEN UNCHANGED <<responseCache, storeLog>>
       ELSE /\ responseCache' = <<>>
            /\ storeLog' = {}
    /\ UNCHANGED <<cfgVars, keyVars, timers, now, reqs, nextId,
                   users, issued, customProviders, lastUserOp,
                   auxVars>>

ClearCache(token) ==
    /\ adminOps < MaxAdminOps
    /\ adminOps' = adminOps + 1
    /\ lastCall' = Answer("/config/clear-cache", token, reqUser(token), authMiddleware(token),
                          IF authMiddleware(token) # 200 THEN -1
                          ELSE Cardinality(DOMAIN responseCache))
    /\ IF authMiddleware(token) # 200 THEN UNCHANGED <<responseCache, storeLog>>
       ELSE /\ responseCache' = <<>>
            /\ storeLog' = {}
    /\ UNCHANGED <<cfgVars, keyVars, timers, now, reqs, nextId,
                   users, issued, customProviders, lastUserOp,
                   auxVars>>

(***************************************************************************)
(* Specification of the response cache: non-streaming chat requests for    *)
(* two client names that resolve to the same target model, the clock, the  *)
(* expiry timers and clear-cache.                                          *)
(***************************************************************************)
CacheModels == {"gpt-4", "gpt-4-turbo"}

FailedRequests == Cardinality({r \in ReqIds : reqs[r].observed # "none"})

InitCache ==
    /\ InitCommon
    /\ MAX_RETRIES = 3
    /\ InitKeys([openrouter |-> TRUE, gemini |-> TRUE])

NextCache ==
    \/ \E r \in ReqIds, m \in CacheModels : ChatStart(r, m, UserMsg, FALSE, <<>>)
    \/ \E r \in ReqIds : /\ reqs[r].observed = "none"
                          /\ FailedRequests < MaxFailures
                          /\ AttemptFails(r, "http500")
    \/ \E r \in ReqIds : BackoffDone(r)
    \/ \E r \in ReqIds : AttemptSucceeds(r)
    \/ Tick
    \/ TimerFires
    \/ ClearCache(AdminToken)

SpecCache == InitCache /\ [][NextCache]_vars

(***************************************************************************)
(* Specification of the streaming relay: streaming chat requests to the    *)
(* three providers.                                                        *)
(***************************************************************************)
StreamModels == {"gpt-4", "gemini-1.5-flash", "opencode-minimax-m2.5"}
StreamReqs   == {1, 2}

InitStream ==
    /\ InitCommon
    /\ MAX_RETRIES = 3
    /\ InitKeys([openrouter |-> TRUE, gemini |-> TRUE])

NextStream ==
    \/ \E r \in StreamReqs, m \in StreamModels, msgs \in ExecMessages :
          ChatStart(r, m, msgs, TRUE, <<>>)
    \/ \E r \in StreamReqs, err \in {"http500", "timeout", "nouser"} : StreamConnectFails(r, err)
    \/ \E r \in StreamReqs : StreamConnects(r)
    \/ \E r \in StreamReqs : StreamChunk(r)
    \/ \E r \in StreamReqs : StreamEnds(r)
    \/ \E r \in StreamReqs : StreamBreaks(r)

SpecStream == InitStream /\ [][NextStream]_vars

(***************************************************************************)
(* The caller goes away while its request is in an upstream call or in a   *)
(* backoff wait.  Neither handler registers a listener on the request or   *)
(* the response ('close', 'aborted') and the executors take no signal: no  *)
(* state of the gateway changes.  goneAt records the number of upstream    *)
(* calls made so far.                                                      *)
(***************************************************************************)
CallerDisconnects(r) ==
    /\ reqs[r].pc \in {"calling", "waiting"}
    /\ reqs[r].goneAt = -1
    /\ reqs' = [reqs EXCEPT ![r].goneAt = Len(reqs[r].calls)]
    /\ UNCHANGED <<cfgVars, keyVars, cacheVars, now, nextId, adminOps, authVars,
                   auxVars>>

CancelErrors == {"http500", "timeout"}

InitCancel ==
    /\ InitCommon
    /\ MAX_RETRIES = 2
    /\ InitKeys([openrouter |-> TRUE, gemini |-> TRUE])

NextCancel ==
    \/ \E r \in StreamReqs : \E m \in {"gpt-4", "gemini-1.5-flash"} :
            ChatStart(r, m, UserMsg, FALSE, <<>>)
    \/ \E r \in StreamReqs : \E err \in CancelErrors : AttemptFails(r, err)
    \/ \E r \in StreamReqs : BackoffDone(r)
    \/ \E r \in StreamReqs : AttemptSucceeds(r)
    \/ \E r \in StreamReqs : CallerDisconnects(r)

SpecCancel == InitCancel /\ [][NextCancel]_vars

(***************************************************************************)
(* Specification of model resolution: requests naming mapped, unmapped,    *)
(* empty, missing ("undefined") and inherited property names, while the    *)
(* administrator edits the mapping.                                        *)
(***************************************************************************)
ResolveNames == {"gpt-4", "no-such-model", "", "undefined", "constructor"}

InitResolve ==
    /\ InitCommon
    /\ MAX_RETRIES = 1
    /\ InitKeys([openrouter |-> TRUE, gemini |-> TRUE])

NextResolve ==
    \/ \E r \in StreamReqs, n \in ResolveNames : ChatStart(r, n, UserMsg, FALSE, <<>>)
    \/ \E r \in StreamReqs, n \in ResolveNames : EmbeddingsStart(r, n)
    \/ \E r \in StreamReqs : AttemptFails(r, "http400")
    \/ \E r \in StreamReqs : AttemptSucceeds(r)
    \/ \E o \in {"default", "no-such-model", "text-embedding-ada-002"},
          t \in {"qwen/qwen3-235b-a22b:free", "gemini-1.5-flash"},
          p \in {"none", "gemini", "openrouter"} : ConfigModels(AdminToken, o, t, p)

SpecResolve == InitResolve /\ [][NextResolve]_vars

(***************************************************************************)
(* Specification of the cache key: requests whose bodies carry the same    *)
(* generation options in either order.  otherOptions is the rest of the    *)
(* destructured body, its fields in the order the body lists them.         *)
(***************************************************************************)
OptionsTempFirst == <<<<"temperature", 1>>, <<"max_tokens", 16>>>>
OptionsTempLast  == <<<<"max_tokens", 16>>, <<"temperature", 1>>>>

InitKey ==
    /\ InitCommon
    /\ MAX_RETRIES = 2
    /\ InitKeys([openrouter |-> TRUE, gemini |-> TRUE])

NextKey ==
    \/ \E r \in StreamReqs, m \in CacheModels,
          o \in {<<>>, OptionsTempFirst, OptionsTempLast} :
            ChatStart(r, m, UserMsg, FALSE, o)
    \/ \E r \in StreamReqs : AttemptFails(r, "http500")
    \/ \E r \in StreamReqs : BackoffDone(r)
    \/ \E r \in StreamReqs : AttemptSucceeds(r)

SpecKey == InitKey /\ [][NextKey]_vars

(***************************************************************************)
(* Specification of provider routing: one request, while the administrator *)
(* edits the model mapping, the provider selection, the fallbacks and the  *)
(* key pools.                                                              *)
(***************************************************************************)
InitRoute ==
    /\ InitCommon
    /\ MAX_RETRIES \in {1, 2}
    /\ \E env \in EnvKeys : InitKeys(env)

NextRoute ==
    \/ \E m \in ExecModels : ChatStart(1, m, UserMsg, FALSE, <<>>)
    \/ EmbeddingsStart(1, "text-embedding-ada-002")
    \/ \E err \in {"http500", "timeout"} : AttemptFails(1, err)
    \/ BackoffDone(1)
    \/ AttemptSucceeds(1)
    \/ \E o \in {"gpt-4", "gemini-1.5-flash"}, t \in Targets,
          p \in {"none", "gemini", "openrouter", "opencode"} : ConfigModels(AdminToken, o, t, p)
    \/ \E p \in Targets, f \in Targets, a \in {"add", "remove"} : ConfigFallbacks(AdminToken, p, f, a)
    \/ \E p \in Providers, k \in ExecKeys, a \in {"add", "remove"} : ConfigProviders(AdminToken, p, k, a)

SpecRoute == InitRoute /\ [][NextRoute]_vars

(***************************************************************************)
(* POST /config/providers/custom and DELETE /config/providers/custom/:name *)
(* The POST route runs behind authMiddleware and validates the name; the   *)
(* DELETE route is registered without any middleware.                      *)
(***************************************************************************)
ValidProviderNames == {"my-llm"}

ProviderNames == ValidProviderNames \cup {"gemini", "Bad Name"}

ConfigCustomProvider(token, name) ==
    /\ lastCall' = Answer("/config/providers/custom", token, reqUser(token),
                          IF authMiddleware(token) # 200 THEN authMiddleware(token)
                          ELSE IF name \notin ValidProviderNames THEN 400
                          ELSE 200, -1)
    /\ customProviders' =
          IF authMiddleware(token) = 200 /\ name \in ValidProviderNames
          THEN customProviders \cup {name}
          ELSE customProviders
    /\ UNCHANGED <<cfgVars, keyVars, cacheVars, now, reqs, nextId, adminOps,
                   users, issued, lastUserOp,
                   auxVars>>

DeleteCustomProvider(token, name) ==
    /\ lastCall' = Answer("/config/providers/custom/:name", token, "none",
                          IF name \in customProviders THEN 200 ELSE 404, -1)
    /\ customProviders' = customProviders \ {name}
    /\ UNCHANGED <<cfgVars, keyVars, cacheVars, now, reqs, nextId, adminOps,
                   users, issued, lastUserOp,
                   auxVars>>

(***************************************************************************)
(* UserManager (users.js) and the OAuth callback that creates users.       *)
(***************************************************************************)
UserOp(op, key, isAdmin, permissions, result) ==
    [op |-> op, key |-> key, isAdmin |-> isAdmin, permissions |-> permissions,
     result |-> result]

\* createOrUpdateUser: the record stored under github_<id>; isAdmin and
\* permissions are kept from an existing record, else false and ['read']
createOrUpdateUser(userId) ==
    [login       |-> LoginOf(userId),
     isAdmin     |-> IF userId \in DOMAIN users THEN users[userId].isAdmin ELSE FALSE,
     permissions |-> IF userId \in DOMAIN users THEN users[userId].permissions
                     ELSE <<"read">>]

\* getUserByLogin: the stored users whose login is the given one
getUserByLogin(login) == {u \in DOMAIN users : users[u].login = login}

\* GET /auth/github/callback: store the user, sign a JWT for its id
GithubCallback(userId) ==
    /\ users' = (userId :> createOrUpdateUser(userId)) @@ users
    /\ issued' = issued \cup {userId}
    /\ lastUserOp' = UserOp("createOrUpdateUser", userId, FALSE, <<>>, "user")
    /\ UNCHANGED <<cfgVars, keyVars, cacheVars, now, reqs, nextId, adminOps,
                   customProviders, lastCall,
                   auxVars>>

deleteUser(userId) ==
    /\ users' = [u \in (DOMAIN users) \ {userId} |-> users[u]]
    /\ lastUserOp' = UserOp("deleteUser", userId, FALSE, <<>>, "undefined")
    /\ UNCHANGED <<cfgVars, keyVars, cacheVars, now, reqs, nextId, adminOps,
                   issued, customProviders, lastCall,
                   auxVars>>

setAdminStatus(userId, isAdmin) ==
    /\ users' = IF userId \in DOMAIN users
                THEN [users EXCEPT ![userId].isAdmin = isAdmin]
                ELSE users
    /\ lastUserOp' = UserOp("setAdminStatus", userId, isAdmin, <<>>,
                            IF userId \in DOMAIN users THEN "user" ELSE "null")
    /\ UNCHANGED <<cfgVars, keyVars, cacheVars, now, reqs, nextId, adminOps,
                   issued, customProviders, lastCall,
                   auxVars>>

updateUserPermissions(userId, permissions) ==
    /\ users' = IF userId \in DOMAIN users
                THEN [users EXCEPT ![userId].permissions = permissions]
                ELSE users
    /\ lastUserOp' = UserOp("updateUserPermissions", userId, FALSE, permissions,
                            IF userId \in DOMAIN users THEN "user" ELSE "null")
    /\ UNCHANGED <<cfgVars, keyVars, cacheVars, now, reqs, nextId, adminOps,
                   issued, customProviders, lastCall,
                   auxVars>>

(***************************************************************************)
(* Specification of the admin surface: users log in, are promoted, demoted *)
(* and deleted, and callers present whatever token they may hold to the    *)
(* configuration endpoints.                                                *)
(***************************************************************************)
\* what a caller can put in a request: nothing, a token that does not
\* verify, or a JWT the gateway signed (also for a user deleted since)
PresentableTokens ==
    {NoToken, BadToken("github_2")} \cup {Jwt(u) : u \in issued}

\* the names tests and callers pass to the UserManager: ids and logins
UserKeys == UserIds \cup {LoginOf(u) : u \in UserIds}

PermissionSets == {<<"read">>, <<"read", "write", "admin">>}

InitAdmin ==
    /\ InitCommon
    /\ MAX_RETRIES = 1
    /\ InitKeys([openrouter |-> TRUE, gemini |-> TRUE])

NextAdmin ==
    \/ \E u \in UserIds : GithubCallback(u)
    \/ \E u \in UserIds : deleteUser(u)
    \/ \E u \in UserIds, b \in BOOLEAN : setAdminStatus(u, b)
    \/ \E t \in PresentableTokens : ConfigModels(t, "gpt-4", "gemini-1.5-flash", "gemini")
    \/ \E t \in PresentableTokens : ClearCache(t)
    \/ \E t \in PresentableTokens, a \in {"add", "remove"} :
          ConfigProviders(t, "openrouter", "key-2", a)
    \/ \E t \in PresentableTokens, a \in {"add", "remove"} :
          ConfigFallbacks(t, "qwen/qwen3-235b-a22b:free", "gemini-1.5-flash", a)
    \/ \E t \in PresentableTokens, n \in ProviderNames : ConfigCustomProvider(t, n)
    \/ \E t \in PresentableTokens, n \in ProviderNames : DeleteCustomProvider(t, n)

SpecAdmin == InitAdmin /\ [][NextAdmin]_vars

(***************************************************************************)
(* GitHub device flow (device-auth.js).  GitHub hands out a fresh device   *)
(* code per request; a poll either is refused locally or sends one request *)
(* to GitHub's token endpoint, whose answer arrives in a later step.       *)
(***************************************************************************)
DeviceCodes == {"dc-1", "dc-2"}

\* codes a caller may poll with: the ones handed out and one never tracked
PollCodes == DeviceCodes \cup {"invalid-code"}

\* response.expires_in, in clock ticks
ExpiresIn == {1, 2}

\* GitHub's answers to a token request
TokenAnswers == {"authorization_pending", "slow_down", "expired_token",
                 "access_denied", "access_token", "http_error"}

MaxTokenRequests == 3

DevicePoll(deviceCode, outcome) == [deviceCode |-> deviceCode, outcome |-> outcome]

FlowExpired(deviceCode) == now > activeDeviceFlows[deviceCode].expiresAt

requestDeviceCode(deviceCode, expiresIn) ==
    /\ deviceCode \notin deviceCodes
    /\ deviceCodes' = deviceCodes \cup {deviceCode}
    /\ activeDeviceFlows' =
          (deviceCode :> [expiresAt |-> now + expiresIn, codeExpired |-> FALSE])
              @@ activeDeviceFlows
    /\ UNCHANGED <<pendingPolls, tokenRequests, tokensIssued, lastPoll>>
    /\ UNCHANGED <<cfgVars, keyVars, cacheVars, now, reqs, nextId, adminOps,
                   authVars, sessionVars, namedProvider, geminiClientKey>>

\* pollAccessToken up to req.end(): refuse an untracked or expired code,
\* else send the token request
pollAccessToken(deviceCode) ==
    /\ IF deviceCode \notin DOMAIN activeDeviceFlows
       THEN /\ lastPoll' = DevicePoll(deviceCode, "invalid")
            /\ UNCHANGED <<activeDeviceFlows, pendingPolls, tokenRequests>>
       ELSE IF FlowExpired(deviceCode)
       THEN /\ activeDeviceFlows' =
                  [activeDeviceFlows EXCEPT ![deviceCode].codeExpired = TRUE]
            /\ lastPoll' = DevicePoll(deviceCode, "expired")
            /\ UNCHANGED <<pendingPolls, tokenRequests>>
       ELSE /\ tokenRequests < MaxTokenRequests
            /\ tokenRequests' = tokenRequests + 1
            /\ pendingPolls' = [pendingPolls EXCEPT ![deviceCode] = @ + 1]
            /\ lastPoll' = DevicePoll(deviceCode, "sent")
            /\ UNCHANGED activeDeviceFlows
    /\ UNCHANGED <<deviceCodes, tokensIssued>>
    /\ UNCHANGED <<cfgVars, keyVars, cacheVars, now, reqs, nextId, adminOps,
                   authVars, sessionVars, namedProvider, geminiClientKey>>

\* variant of the response callback that keeps an exchanged code tracked
pollRespondsKeepingFlow(deviceCode, answer) ==
    /\ pendingPolls[deviceCode] > 0
    /\ pendingPolls' = [pendingPolls EXCEPT ![deviceCode] = @ - 1]
    /\ lastPoll' = DevicePoll(deviceCode, answer)
    /\ activeDeviceFlows' =
          IF answer = "expired_token" /\ deviceCode \in DOMAIN activeDeviceFlows
          THEN [activeDeviceFlows EXCEPT ![deviceCode].codeExpired = TRUE]
          ELSE activeDeviceFlows
    /\ tokensIssued' =
          IF answer = "access_token" THEN tokensIssued \cup {deviceCode}
          ELSE tokensIssued
    /\ UNCHANGED <<deviceCodes, tokenRequests>>
    /\ UNCHANGED <<cfgVars, keyVars, cacheVars, now, reqs, nextId, adminOps,
                   authVars, sessionVars, namedProvider, geminiClientKey>>

\* res.on('end') of the token request: settle the poll with GitHub's answer
pollResponds(deviceCode, answer) ==
    /\ pendingPolls[deviceCode] > 0
    /\ pendingPolls' = [pendingPolls EXCEPT ![deviceCode] = @ - 1]
    /\ lastPoll' = DevicePoll(deviceCode, answer)
    /\ activeDeviceFlows' =
          IF answer = "expired_token" /\ deviceCode \in DOMAIN activeDeviceFlows
          THEN [activeDeviceFlows EXCEPT ![deviceCode].codeExpired = TRUE]
          ELSE IF answer = "access_token"
          THEN [c \in (DOMAIN activeDeviceFlows) \ {deviceCode} |-> activeDeviceFlows[c]]
          ELSE activeDeviceFlows
    /\ tokensIssued' =
          IF answer = "access_token" THEN tokensIssued \cup {deviceCode}
          ELSE tokensIssued
    /\ UNCHANGED <<deviceCodes, tokenRequests>>
    /\ UNCHANGED <<cfgVars, keyVars, cacheVars, now, reqs, nextId, adminOps,
                   authVars, sessionVars, namedProvider, geminiClientKey>>

\* getFlowStatus(deviceCode).status, as GET /auth/device/status returns it
getFlowStatus(deviceCode) ==
    IF deviceCode \notin DOMAIN activeDeviceFlows THEN "invalid"
    ELSE IF activeDeviceFlows[deviceCode].codeExpired THEN "expired"
    ELSE "active"

\* the ids GitHub's /user endpoint reports for the people who authorize
GithubIds == {"1", "2"}

\* `github_${id}`
GithubKey(id) == "github_" \o id

\* the poll route signs { userId: user.id } where user is the promise the
\* async createOrUpdateUser returned, not awaited: user.id is undefined and
\* the signed payload has no userId
DevicePollSubject(githubId) == "undefined"

\* POST /auth/device/poll after pollAccessToken resolved with a token and
\* getUserProfile returned the profile of githubId: the route passes
\* id: `github_${userProfile.id}` to createOrUpdateUser, which stores the user
\* under `github_${githubUser.id}`; then it signs the JWT and answers 200
DevicePollAuthorized(deviceCode, githubId) ==
    LET userId == GithubKey(GithubKey(githubId)) IN
    /\ deviceCode \in tokensIssued
    /\ users' = (userId :> [createOrUpdateUser(userId) EXCEPT
                                !.login = LoginOf(GithubKey(githubId))]) @@ users
    /\ issued' = issued \cup {DevicePollSubject(githubId)}
    /\ lastUserOp' = UserOp("/auth/device/poll", userId, FALSE, <<>>,
                            DevicePollSubject(githubId))
    /\ UNCHANGED <<cfgVars, keyVars, cacheVars, now, reqs, nextId, adminOps,
                   customProviders, lastCall, auxVars>>

\* variant of cleanupExpiredCodes that also drops a flow at its expiry time
cleanupExpiredCodesAtExpiry ==
    /\ activeDeviceFlows' =
          [c \in {d \in DOMAIN activeDeviceFlows :
                     ~(now >= activeDeviceFlows[d].expiresAt)} |-> activeDeviceFlows[c]]
    /\ UNCHANGED <<pendingPolls, deviceCodes, tokenRequests, tokensIssued, lastPoll>>
    /\ UNCHANGED <<cfgVars, keyVars, cacheVars, now, reqs, nextId, adminOps,
                   authVars, sessionVars, namedProvider, geminiClientKey>>

cleanupExpiredCodes ==
    /\ activeDeviceFlows' =
          [c \in {d \in DOMAIN activeDeviceFlows : ~FlowExpired(d)} |-> activeDeviceFlows[c]]
    /\ UNCHANGED <<pendingPolls, deviceCodes, tokenRequests, tokensIssued, lastPoll>>
    /\ UNCHANGED <<cfgVars, keyVars, cacheVars, now, reqs, nextId, adminOps,
                   authVars, sessionVars, namedProvider, geminiClientKey>>

InitDevice ==
    /\ InitCommon
    /\ MAX_RETRIES = 1
    /\ InitKeys([openrouter |-> TRUE, gemini |-> TRUE])

NextDevice ==
    \/ \E c \in DeviceCodes, e \in ExpiresIn : requestDeviceCode(c, e)
    \/ \E c \in PollCodes : pollAccessToken(c)
    \/ \E c \in DeviceCodes, a \in TokenAnswers : pollResponds(c, a)
    \/ cleanupExpiredCodes
    \/ Tick

SpecDevice == InitDevice /\ [][NextDevice]_vars

(***************************************************************************)
(* OpenCode session management (class SessionManager).                     *)
(***************************************************************************)
SessionIds == {"session-1", "session-2"}

SESSION_TTL == 1

MaxHistory == 2

SessionExpired(sessionId) == now - sessions[sessionId].lastActivity > SESSION_TTL

\* Map.delete(key) on a map held as a function
MapDelete(map, keys) == [k \in (DOMAIN map) \ keys |-> map[k]]

createSession(sessionId) ==
    /\ sessionId \notin DOMAIN sessions
    /\ sessions' = (sessionId :> [created |-> now, lastActivity |-> now,
                                  status |-> "active"]) @@ sessions
    /\ messageHistory' = (sessionId :> <<>>) @@ messageHistory
    /\ lastCleanup' = -1
    /\ UNCHANGED <<cfgVars, keyVars, cacheVars, now, reqs, nextId, adminOps,
                   authVars, deviceVars, namedProvider, geminiClientKey>>

\* addMessage: creates a history for an unknown id, appends, and touches
\* the session when there is one
addMessage(sessionId, role) ==
    /\ (sessionId \in DOMAIN messageHistory) => Len(messageHistory[sessionId]) < MaxHistory
    /\ messageHistory' =
          (sessionId :> Append(IF sessionId \in DOMAIN messageHistory
                               THEN messageHistory[sessionId] ELSE <<>>,
                               [role |-> role, timestamp |-> now]))
              @@ messageHistory
    /\ sessions' = IF sessionId \in DOMAIN sessions
                   THEN [sessions EXCEPT ![sessionId].lastActivity = now]
                   ELSE sessions
    /\ lastCleanup' = -1
    /\ UNCHANGED <<cfgVars, keyVars, cacheVars, now, reqs, nextId, adminOps,
                   authVars, deviceVars, namedProvider, geminiClientKey>>

\* closeSession: marks the session closed when there is one
closeSession(sessionId) ==
    /\ sessions' = IF sessionId \in DOMAIN sessions
                   THEN [sessions EXCEPT ![sessionId].status = "closed"]
                   ELSE sessions
    /\ lastCleanup' = -1
    /\ UNCHANGED <<cfgVars, keyVars, cacheVars, now, reqs, nextId, adminOps,
                   authVars, deviceVars, namedProvider, geminiClientKey,
                   messageHistory>>

deleteSession(sessionId) ==
    /\ sessions' = MapDelete(sessions, {sessionId})
    /\ messageHistory' = MapDelete(messageHistory, {sessionId})
    /\ lastCleanup' = -1
    /\ UNCHANGED <<cfgVars, keyVars, cacheVars, now, reqs, nextId, adminOps,
                   authVars, deviceVars, namedProvider, geminiClientKey>>

\* variant of cleanupExpiredSessions that deletes the sessions only
cleanupExpiredSessionsKeepingHistory ==
    LET expired == {s \in DOMAIN sessions : SessionExpired(s)} IN
    /\ sessions' = MapDelete(sessions, expired)
    /\ messageHistory' = messageHistory
    /\ lastCleanup' = Cardinality(expired)
    /\ UNCHANGED <<cfgVars, keyVars, cacheVars, now, reqs, nextId, adminOps,
                   authVars, deviceVars, namedProvider, geminiClientKey>>

\* cleanupExpiredSessions: deleteSession for every expired session, and the
\* number of them as the return value
cleanupExpiredSessions ==
    LET expired == {s \in DOMAIN sessions : SessionExpired(s)} IN
    /\ sessions' = MapDelete(sessions, expired)
    /\ messageHistory' = MapDelete(messageHistory, expired)
    /\ lastCleanup' = Cardinality(expired)
    /\ UNCHANGED <<cfgVars, keyVars, cacheVars, now, reqs, nextId, adminOps,
                   authVars, deviceVars, namedProvider, geminiClientKey>>

InitSession ==
    /\ InitCommon
    /\ MAX_RETRIES = 1
    /\ InitKeys([openrouter |-> TRUE, gemini |-> TRUE])

NextSession ==
    \/ \E i \in SessionIds : createSession(i)
    \/ \E i \in SessionIds, r \in {"user", "assistant"} : addMessage(i, r)
    \/ \E i \in SessionIds : deleteSession(i)
    \/ cleanupExpiredSessions
    \/ Tick

SpecSession == InitSession /\ [][NextSession]_vars

(***************************************************************************)
(* Specification of request bodies: chat requests with a user message,     *)
(* without one, and without a `messages` field.  The event loop runs every *)
(* callback that is ready and every upstream call settles, so the steps of *)
(* the specification are taken fairly.                                     *)
(***************************************************************************)
BodyMessages == {UserMsg, SystemMsg, MissingMessages}

InitBody ==
    /\ InitCommon
    /\ MAX_RETRIES = 2
    /\ InitKeys([openrouter |-> TRUE, gemini |-> TRUE])

NextBody ==
    \/ \E r \in StreamReqs, m \in {"gpt-4", "gemini-1.5-flash"}, msgs \in BodyMessages :
          ChatStart(r, m, msgs, FALSE, <<>>)
    \/ \E r \in StreamReqs, err \in {"http500", "nouser"} : AttemptFails(r, err)
    \/ \E r \in StreamReqs : BackoffDone(r)
    \/ \E r \in StreamReqs : AttemptSucceeds(r)

SpecBody == InitBody /\ [][NextBody]_vars /\ WF_vars(NextBody)

(***************************************************************************)
(* Specification of the key pools: keys are added and removed at run time  *)
(* while chat requests are dispatched to OpenRouter.                       *)
(***************************************************************************)
PoolKeys == {"or-key-1", "key-2"}

InitPool ==
    /\ InitCommon
    /\ MAX_RETRIES = 1
    /\ InitKeys([openrouter |-> TRUE, gemini |-> TRUE])

NextPool ==
    \/ \E r \in ReqIds : ChatStart(r, "gpt-4", UserMsg, FALSE, <<>>)
    \/ \E r \in ReqIds : AttemptFails(r, "http500")
    \/ \E r \in ReqIds : AttemptSucceeds(r)
    \/ \E k \in PoolKeys, a \in {"add", "remove"} : ManageKeys("openrouter", k, a)

SpecPool == InitPool /\ [][NextPool]_vars

(***************************************************************************)
(* Specification of retry termination: one chat request whose upstream     *)
(* calls all fail, for every MAX_RETRIES in range, while the administrator *)
(* rewrites the fallback table (cycles and self-loops included).  A        *)
(* pending upstream call settles and a pending delay() elapses, so the     *)
(* request's steps are taken fairly; the administrator need not act.       *)
(***************************************************************************)
ChainModels == {"deepseek/deepseek-r1-0528:free", "qwen/qwen3-235b-a22b:free",
                "mistralai/mistral-embed:free"}

InitTerm ==
    /\ InitCommon
    /\ MAX_RETRIES \in (-1)..MaxRetriesSetting
    /\ InitKeys([openrouter |-> TRUE, gemini |-> TRUE])

RequestStep ==
    \/ AttemptFails(1, "http500")
    \/ BackoffDone(1)

NextTerm ==
    \/ \E m \in {"gpt-4", "gemini-1.5-flash"} : ChatStart(1, m, UserMsg, FALSE, <<>>)
    \/ AttemptFails(1, "http500")
    \/ BackoffDone(1)
    \/ \E p \in ChainModels, f \in ChainModels, a \in {"add", "remove"} :
          ManageFallbacks(p, f, a)

SpecTerm == InitTerm /\ [][NextTerm]_vars /\ WF_vars(RequestStep)

(***************************************************************************)
(* Properties of the executors (checked under SpecExec).                   *)
(***************************************************************************)
Max(a, b) == IF a >= b THEN a ELSE b

UpstreamFailed(q) == q.observed \in UpstreamErrors \cup {"nouser"}

\* C1: within one request no target model is attempted in more than one
\* retry cycle, whatever fallback table the administrator configured
\* (self-loops and longer cycles included).
C1_NoModelInTwoCycles ==
    \A r \in ReqIds : \A t \in Targets : reqs[r].cycles[t] <= 1

\* C2 (as claimed): for every integer MAX_RETRIES the upstream calls made for
\* one target model in one retry cycle number at most MAX_RETRIES.
C2_CallsWithinMaxRetries ==
    \A r \in ReqIds : reqs[r].cycleCalls > 0 => reqs[r].cycleCalls <= MAX_RETRIES

\* C2 (amended): the upstream calls made for one target model in one retry
\* cycle number at most MAX_RETRIES when MAX_RETRIES >= 1, and at most one
\* when MAX_RETRIES is zero or negative.
C2_CallsWithinBudget ==
    \A r \in ReqIds : reqs[r].cycleCalls <= Max(1, MAX_RETRIES)

C2_Witness ==
    \E r \in ReqIds :
        /\ MAX_RETRIES = 3
        /\ reqs[r].executor = "gemini"
        /\ reqs[r].pc = "done"
        /\ reqs[r].response.kind = "error"
        /\ reqs[r].cycleCalls = 3

\* C8: when all MAX_RETRIES attempts on the current target model have failed
\* and its fallback successor has not been tried in this request, the next
\* attempt goes to the successor with the retry counter back at zero.
C8_SuccessorAttemptedNext ==
    [][\A r \in ReqIds :
          LET q    == reqs[r]
              succ == FallbackOf(q.currentModel)
          IN  ( /\ q.pc = "calling"
                /\ MAX_RETRIES >= 1
                /\ q.cycleCalls = MAX_RETRIES
                /\ succ \in Targets
                /\ q.cycles[succ] = 0
                /\ reqs'[r] # q
                /\ reqs'[r].response.status # 200 )
              => ( /\ reqs'[r].pc = "calling"
                   /\ reqs'[r].currentModel = succ
                   /\ reqs'[r].retries = 0
                   /\ reqs'[r].cycleCalls = 1 )]_vars

C10_OtherFailuresNotRetried ==
    \A r \in ReqIds :
        LET q == reqs[r] IN
        q.observed \in {"http400", "http401", "http403", "http429"}
            => /\ q.pc = "done"
               /\ q.response.kind = "error"
               /\ q.response.originalError = q.observed

\* C10 (amended): the executors retry on every failure whatever its
\* classification; an upstream failure reaches the caller only after
\* max(1, MAX_RETRIES) attempts on the current model.
C10_EveryFailureRetried ==
    \A r \in ReqIds :
        LET q == reqs[r] IN
        (q.pc = "done" /\ UpstreamFailed(q) /\ q.response.kind = "error")
            => q.attempts = Max(1, MAX_RETRIES)

C10_Witness ==
    \E r \in ReqIds :
        LET q == reqs[r] IN
        /\ MAX_RETRIES = 3
        /\ q.pc = "done"
        /\ q.response.kind = "error"
        /\ q.response.code = "authentication_error"
        /\ q.attempts = 3

(***************************************************************************)
(* Properties of the response cache (checked under SpecCache).             *)
(***************************************************************************)
NonStreamingChat(q) == q.endpoint = "chat" /\ q.pc # "idle" /\ ~q.stream

\* the most recent of the stores a lookup could see
LatestStore(stores) == CHOOSE s \in stores : \A o \in stores : o.resp.id <= s.resp.id

\* C3: a non-streaming request that arrives less than CACHE_TTL after a
\* response was stored under its key, with no clear-cache in between, is
\* answered with that stored response and makes no upstream call.
C3_HitWithinTtl ==
    \A r \in ReqIds :
        LET q == reqs[r] IN
        (NonStreamingChat(q) /\ q.seenStores # {})
            => LET s == LatestStore(q.seenStores) IN
               q.lookupAt < s.at + CACHE_TTL
                   => (q.hit /\ q.response = s.resp /\ q.calls = <<>>)

\* C4: no request is answered from a cache entry that was stored CACHE_TTL
\* or more before the request's lookup.
C4_NoHitOnExpiredEntry ==
    \A r \in ReqIds :
        LET q == reqs[r] IN
        q.hit => \A s \in q.seenStores :
                    s.resp = q.response => q.lookupAt < s.at + CACHE_TTL

\* C7: the model field of every successful non-streaming chat completion is
\* the model name sent in that same request, fresh or served from the cache.
C7_ModelFieldEchoesRequest ==
    \A r \in ReqIds :
        LET q == reqs[r] IN
        (q.pc = "done" /\ q.response.kind = "completion")
            => q.response.model = q.requestedModel

(***************************************************************************)
(* Properties of the streaming relay (checked under SpecStream).           *)
(***************************************************************************)
Count(s, x) == Cardinality({i \in 1..Len(s) : s[i] = x})

\* C5: when the upstream of a streaming request fails, before or after the
\* first chunk, the caller receives exactly one error event followed by
\* exactly one data: [DONE], and the connection is closed.
C5_StreamFailureSignalled ==
    \A r \in ReqIds :
        LET q == reqs[r] IN
        (q.stream /\ q.observed # "none")
            => /\ Count(q.events, "error") = 1
               /\ Count(q.events, "[DONE]") = 1
               /\ Len(q.events) >= 2
               /\ q.events[Len(q.events) - 1] = "error"
               /\ q.events[Len(q.events)] = "[DONE]"
               /\ q.conn = "closed"

(***************************************************************************)
(* Properties of provider routing (checked under SpecExec).                *)
(***************************************************************************)

\* C6: a request routed to a provider whose key pool is empty (or whose
\* client is not configured) is answered with a 503 configuration_error
\* after zero upstream calls, zero retries and no backoff wait.
C6_UnconfiguredFailsFast ==
    \A r \in ReqIds :
        LET q == reqs[r] IN
        (q.pc # "idle" /\ ~q.hit /\ q.unconfigured)
            => /\ q.pc = "done"
               /\ q.response.status = 503
               /\ q.response.type = "configuration_error"
               /\ q.calls = <<>>
               /\ q.attempts = 0
               /\ q.retries = 0

C6_Witness ==
    \E r \in ReqIds :
        LET q == reqs[r] IN
        /\ q.pc = "done"
        /\ q.unconfigured
        /\ q.requestedModel = "gpt-4"
        /\ providerApiKeys["openrouter"] = <<>>
        /\ q.response.code = "openrouter_not_configured"

(***************************************************************************)
(* Properties of caller cancellation (checked under SpecCancel).           *)
(***************************************************************************)

\* C11: once the caller has disconnected during an upstream call or a
\* backoff wait, no further upstream attempt (retry or fallback) is made for
\* the request and no cache entry is written for it.
C11_DisconnectStopsRequest ==
    \A r \in ReqIds :
        LET q == reqs[r] IN
        q.goneAt >= 0
            => /\ Len(q.calls) = q.goneAt
               /\ \A s \in storeLog : q.response.kind = "completion" => s.resp # q.response

(***************************************************************************)
(* Properties of request admission (checked under SpecCache).              *)
(***************************************************************************)
\* Bucket capacity of the documented rate limiter (RATE_LIMIT_MAX_REQUESTS,
\* 100 per 60 s window), scaled down; one clock tick is shorter than the
\* refill time of one token.
RATE_LIMIT_MAX_REQUESTS == 2

\* the request got past admission: the handler resolved its model
Admitted(q) ==
    /\ q.pc # "idle"
    /\ ~(q.response.kind = "error" /\ q.response.code = "rate_limit_exceeded")

\* C12: requests are rate limited by a token bucket consulted before model
\* resolution: of the back-to-back requests of one caller no more than the
\* bucket capacity are admitted, the next one is rejected (429,
\* rate_limit_exceeded) without reaching the resolver, the cache or a
\* provider.
C12_BurstIsRateLimited ==
    \A t \in 0..MaxTime :
        Cardinality({r \in ReqIds : Admitted(reqs[r]) /\ reqs[r].lookupAt = t})
            <= RATE_LIMIT_MAX_REQUESTS

(***************************************************************************)
(* Properties of model resolution (checked under SpecResolve).             *)
(***************************************************************************)

\* C13: a chat or embedding request whose model name has no entry of its own
\* in the mapping (empty and missing names included) resolves to the target
\* of the default entry, after any admin mapping updates.
C13_UnknownNameResolvesToDefault ==
    [][\A r \in ReqIds :
          ( /\ reqs[r].pc = "idle"
            /\ reqs'[r].pc # "idle"
            /\ reqs'[r].requestedModel \notin DOMAIN MODEL_MAPPING )
          => reqs'[r].resolved = MODEL_MAPPING["default"]]_vars

(***************************************************************************)
(* Properties of the cache key (checked under SpecKey).                    *)
(***************************************************************************)
SameOptions(o1, o2) == SeqElems(o1) = SeqElems(o2)

\* C14: two non-streaming requests with the same resolved model, the same
\* messages and the same option fields and values, in whatever field order,
\* have the same cache key (so that the later one finds the entry the
\* earlier one stored).
C14_OptionOrderIrrelevant ==
    \A r1, r2 \in ReqIds :
        LET q1 == reqs[r1]
            q2 == reqs[r2]
        IN ( /\ NonStreamingChat(q1) /\ NonStreamingChat(q2)
             /\ q1.resolved = q2.resolved
             /\ q1.messages = q2.messages
             /\ SameOptions(q1.options, q2.options) )
           => q1.cacheKey = q2.cacheKey

(***************************************************************************)
(* Properties of provider routing under admin edits (checked under         *)
(* SpecRoute).                                                             *)
(***************************************************************************)
LastCall(q) == q.calls[Len(q.calls)]

\* C15: after any admin operations, whenever a target model is sent
\* upstream it goes through the one provider the registry assigns to it
\* (OpenRouter when the registry has no entry); otherwise the request fails
\* with a configuration error.
C15_DispatchedThroughAssignedProvider ==
    [][\A r \in ReqIds :
          Len(reqs'[r].calls) > Len(reqs[r].calls)
              => reqs'[r].executor = ProviderOf(LastCall(reqs'[r]))]_vars

(***************************************************************************)
(* Properties of provider failover (checked under SpecExec).               *)
(***************************************************************************)
\* the providers a request has been sent to: a handler calls one executor
ProvidersTried(q) == IF q.calls = <<>> THEN {} ELSE {q.executor}

AlternateProvider(q) == IF q.executor = "openrouter" THEN "gemini" ELSE "openrouter"

AlternateConfigured(q) ==
    IF q.executor = "openrouter" THEN geminiClient
    ELSE Len(providerApiKeys["openrouter"]) > 0

\* C16: a chat request whose provider still fails after its retries is
\* re-dispatched to the alternate provider before an error is returned:
\* Gemini and OpenCode fall back to OpenRouter, OpenRouter falls back to
\* Gemini when Gemini is configured.
C16_FailoverBeforeError ==
    \A r \in ReqIds :
        LET q == reqs[r] IN
        ( /\ q.endpoint = "chat"
          /\ MAX_RETRIES >= 1
          /\ q.pc = "done"
          /\ q.response.kind = "error"
          /\ q.observed \in UpstreamErrors
          /\ AlternateConfigured(q) )
        => AlternateProvider(q) \in ProvidersTried(q)

(***************************************************************************)
(* Specification of cache clearing: two callers fill the cache, entries    *)
(* expire, and clear-cache is called with whatever token a caller holds.   *)
(***************************************************************************)
InitClear ==
    /\ InitCommon
    /\ MAX_RETRIES = 1
    /\ InitKeys([openrouter |-> TRUE, gemini |-> TRUE])

NextClear ==
    \/ \E r \in StreamReqs, m \in CacheModels : ChatStart(r, m, UserMsg, FALSE, <<>>)
    \/ \E r \in StreamReqs : AttemptSucceeds(r)
    \/ Tick
    \/ TimerFires
    \/ \E t \in PresentableTokens : ClearCache(t)

SpecClear == InitClear /\ [][NextClear]_vars

(***************************************************************************)
(* Specification of the user store: the calls the OAuth tests make on the  *)
(* UserManager, naming users by id or by login.                            *)
(***************************************************************************)
InitUsers ==
    /\ InitCommon
    /\ MAX_RETRIES = 1
    /\ InitKeys([openrouter |-> TRUE, gemini |-> TRUE])

NextUsers ==
    \/ \E u \in UserIds : GithubCallback(u)
    \/ \E u \in UserIds : deleteUser(u)
    \/ \E k \in UserKeys, b \in BOOLEAN : setAdminStatus(k, b)
    \/ \E k \in UserKeys, p \in PermissionSets : updateUserPermissions(k, p)

SpecUsers == InitUsers /\ [][NextUsers]_vars

(***************************************************************************)
(* Properties of the admin surface (checked under SpecAdmin).              *)
(***************************************************************************)
\* a request to one of the configuration-mutating endpoints was served
ConfigStep ==
    \/ adminOps' # adminOps
    \/ lastCall' # lastCall
    \/ customProviders' # customProviders

CallerAuthenticated(token) == token.kind = "jwt" /\ token.userId \in DOMAIN users

CallerIsAdmin(token) == CallerAuthenticated(token) /\ users[token.userId].isAdmin

\* C17: a configuration-mutating endpoint changes gateway state only for an
\* authenticated caller whose isAdmin is true; an unauthenticated caller is
\* answered 401, an authenticated non-admin 403, and in both cases the
\* mappings, key pools, custom providers, fallbacks and cache stay unchanged.
C17_OnlyAdminsChangeConfig ==
    [][(ConfigStep /\ ~CallerIsAdmin(lastCall'.token)) =>
         /\ lastCall'.status =
              (IF CallerAuthenticated(lastCall'.token) THEN 403 ELSE 401)
         /\ UNCHANGED <<MODEL_MAPPING, MODEL_PROVIDER, FALLBACK_MAPPING,
                        providerApiKeys, customProviders, responseCache>>]_vars

GuardedRoutes == {"/config/models", "/config/clear-cache", "/config/providers",
                  "/config/providers/custom", "/config/fallbacks"}

\* a request to a route registered behind authMiddleware was served
GuardedStep == ConfigStep /\ lastCall'.route \in GuardedRoutes

\* C18: a request passes the auth middleware (the handler runs with req.user
\* set) exactly when its token verifies and its userId is currently in the
\* user store; every other request, a deleted user's token included, is
\* answered 401 and the handler changes nothing.
C18_PassOr401 ==
    [][GuardedStep =>
         IF CallerAuthenticated(lastCall'.token)
         THEN /\ lastCall'.status # 401
              /\ lastCall'.user = lastCall'.token.userId
         ELSE /\ lastCall'.status = 401
              /\ lastCall'.user = "none"
              /\ UNCHANGED <<MODEL_MAPPING, MODEL_PROVIDER, FALLBACK_MAPPING,
                             providerApiKeys, customProviders, responseCache>>]_vars

\* a token issued to a user who was deleted afterwards has been refused
C18_DeletedUserRefused ==
    /\ lastCall.route \in GuardedRoutes
    /\ lastCall.token.kind = "jwt"
    /\ lastCall.token.userId \in issued
    /\ lastCall.token.userId \notin DOMAIN users
    /\ lastCall.status = 401

\* the clear-cache handler ran for an authenticated caller
ClearStep ==
    /\ adminOps' # adminOps
    /\ lastCall'.route = "/config/clear-cache"
    /\ lastCall'.status = 200

\* C19: clear-cache reports exactly the number of entries the cache held
\* immediately before it ran and leaves the cache empty, and it is one step:
\* no request performs its lookup inside it, so none sees a partly cleared
\* cache.
C19_ClearReportsCountAtomically ==
    [][ClearStep =>
         /\ lastCall'.removed = Cardinality(DOMAIN responseCache)
         /\ responseCache' = <<>>
         /\ reqs' = reqs]_vars

\* a non-empty cache was cleared while a request was in flight
C19_ClearedNonEmptyCache ==
    /\ lastCall.route = "/config/clear-cache"
    /\ lastCall.status = 200
    /\ lastCall.removed >= 1
    /\ responseCache = <<>>
    /\ \E r \in DOMAIN reqs : reqs[r].pc = "calling"

(***************************************************************************)
(* Properties of the user store (checked under SpecUsers).                 *)
(***************************************************************************)
\* the call just made named, by login, a user the store holds
NamedByLogin(op) ==
    /\ lastUserOp' # lastUserOp
    /\ lastUserOp'.op = op
    /\ getUserByLogin(lastUserOp'.key) # {}

\* C20: setAdminStatus or updateUserPermissions naming a stored user by
\* login takes effect: afterwards the user with that login has the isAdmin
\* (respectively permissions) value just set.
C20_ByLoginTakesEffect ==
    [][/\ NamedByLogin("setAdminStatus") =>
            \A u \in getUserByLogin(lastUserOp'.key) :
                users'[u].isAdmin = lastUserOp'.isAdmin
       /\ NamedByLogin("updateUserPermissions") =>
            \A u \in getUserByLogin(lastUserOp'.key) :
                users'[u].permissions = lastUserOp'.permissions]_vars

(***************************************************************************)
(* Properties of the device flow (checked under SpecDevice).               *)
(***************************************************************************)
\* a pollAccessToken call was made
PollStartStep ==
    /\ lastPoll'.outcome \in {"invalid", "expired", "sent"}
    /\ lastPoll' # lastPoll \/ tokenRequests' # tokenRequests

PolledCodeDead ==
    \/ lastPoll'.deviceCode \notin DOMAIN activeDeviceFlows
    \/ now > activeDeviceFlows[lastPoll'.deviceCode].expiresAt

\* C21: a poll with a device code that is not tracked or whose expiry time
\* has passed is rejected with no request sent to GitHub and no token
\* issued; a successful exchange removes the code from the tracked flows, so
\* an exchanged code is never tracked again.
C21_DeadCodeRejectedLocally ==
    [][/\ (PollStartStep /\ PolledCodeDead) =>
            /\ lastPoll'.outcome \in {"invalid", "expired"}
            /\ tokenRequests' = tokenRequests
            /\ pendingPolls' = pendingPolls
            /\ tokensIssued' = tokensIssued
       /\ tokensIssued' \cap DOMAIN activeDeviceFlows' = {}]_vars

\* a code was exchanged for a token and a second poll with it was rejected
C21_SecondPollRejected ==
    /\ lastPoll.outcome = "invalid"
    /\ lastPoll.deviceCode \in tokensIssued

\* tracked flows left the map although no code was exchanged
CleanupStep ==
    /\ DOMAIN activeDeviceFlows' # DOMAIN activeDeviceFlows
    /\ tokensIssued' = tokensIssued
    /\ deviceCodes' = deviceCodes

\* C22: cleanupExpiredCodes removes exactly the tracked flows whose expiry
\* time has passed and leaves every other flow tracked and unchanged.
C22_CleanupRemovesExactlyExpired ==
    [][CleanupStep =>
         /\ DOMAIN activeDeviceFlows' =
              {c \in DOMAIN activeDeviceFlows : ~(now > activeDeviceFlows[c].expiresAt)}
         /\ \A c \in DOMAIN activeDeviceFlows' :
              activeDeviceFlows'[c] = activeDeviceFlows[c]]_vars

\* an expired flow is gone while a flow that has not expired is still tracked
C22_ExpiredGoneLiveKept ==
    /\ \E c \in deviceCodes \ (tokensIssued \cup DOMAIN activeDeviceFlows) : TRUE
    /\ \E c \in DOMAIN activeDeviceFlows : now <= activeDeviceFlows[c].expiresAt

(***************************************************************************)
(* Properties of the session manager (checked under SpecSession).          *)
(***************************************************************************)
\* cleanupExpiredSessions was called
SessionCleanupStep ==
    /\ lastCleanup' # -1
    /\ lastCleanup' # lastCleanup \/ sessions' # sessions

StaleSessions ==
    {i \in DOMAIN sessions : now - sessions[i].lastActivity > SESSION_TTL}

\* C23: cleanupExpiredSessions deletes exactly the sessions whose last
\* activity is more than the session TTL in the past, with their message
\* histories, returns how many it deleted, and leaves every other session
\* and history untouched.
C23_CleanupDeletesExactlyStale ==
    [][SessionCleanupStep =>
         /\ DOMAIN sessions' = (DOMAIN sessions) \ StaleSessions
         /\ DOMAIN messageHistory' = (DOMAIN messageHistory) \ StaleSessions
         /\ lastCleanup' = Cardinality(StaleSessions)
         /\ \A i \in DOMAIN sessions' : sessions'[i] = sessions[i]
         /\ \A i \in DOMAIN messageHistory' :
              messageHistory'[i] = messageHistory[i]]_vars

\* a cleanup deleted a stale session and kept a session with its history
C23_StaleDeletedOtherKept ==
    /\ lastCleanup >= 1
    /\ \E i \in DOMAIN sessions :
          /\ i \in DOMAIN messageHistory
          /\ messageHistory[i] # <<>>
    /\ \E i \in SessionIds : i \notin DOMAIN sessions /\ i \notin DOMAIN messageHistory

(***************************************************************************)
(* Properties of request handling (checked under SpecBody).                *)
(***************************************************************************)
\* C24: every chat-completion request, whatever its body and whatever the
\* upstream does, eventually ends with a response sent to the caller.
C24_EveryRequestAnswered ==
    \A r \in StreamReqs :
        [](reqs[r].pc # "idle" => <>(reqs[r].response.status # 0))

(***************************************************************************)
(* Properties of the key pools (checked under SpecPool).                   *)
(***************************************************************************)
RejectedAsUnconfigured(q) ==
    /\ q.pc = "done"
    /\ ~q.hit
    /\ q.response.status = 503
    /\ q.calls = <<>>

\* C25: after any sequence of key additions, removals and dispatches, a
\* dispatch to a provider whose key pool is non-empty is not rejected as
\* unconfigured.
C25_NonEmptyPoolYieldsKey ==
    \A r \in ReqIds :
        LET q == reqs[r] IN
        (q.pc # "idle" /\ ~q.unconfigured) => ~RejectedAsUnconfigured(q)

(***************************************************************************)
(* Properties of retry termination (checked under SpecTerm).               *)
(***************************************************************************)
\* the most upstream calls a request can make: every model at most once as
\* a fallback, the first model once more, max(1, MAX_RETRIES) calls each
CallBound == (Cardinality(Targets) + 1) * Max(1, MAX_RETRIES)

\* C26: whatever the fallback table (cyclic or not, rewritten at run time)
\* and whatever MAX_RETRIES, a request whose upstream calls all fail makes
\* finitely many calls and ends with an error.
C26_FailingRequestTerminates ==
    /\ [](Len(reqs[1].calls) <= CallBound)
    /\ [](reqs[1].pc # "idle" =>
            <>(reqs[1].pc = "done" /\ reqs[1].response.kind = "error"))

\* a request went round a cyclic fallback table and ended with an error
C26_CycleEnded ==
    /\ reqs[1].pc = "done"
    /\ reqs[1].response.kind = "error"
    /\ Len(reqs[1].modelFallbacks) >= 2
    /\ reqs[1].currentModel \in SeqElems(reqs[1].modelFallbacks)

\* the waits of request q that fell into its cycle number c, in order
RECURSIVE WaitsOfCycle(_, _)
WaitsOfCycle(waits, c) ==
    IF waits = <<>> THEN <<>>
    ELSE IF Head(waits).cycle = c
         THEN <<Head(waits).ms>> \o WaitsOfCycle(Tail(waits), c)
         ELSE WaitsOfCycle(Tail(waits), c)

\* C27: within one retry cycle on a model the wait after the k-th failed
\* attempt is RETRY_DELAY * 2^(k-1) for k = 1 .. MAX_RETRIES-1, there is no
\* wait after the last failed attempt of a cycle, and the waits start again
\* at RETRY_DELAY for each fallback model.
C27_WaitsDoublePerCycle ==
    LET q == reqs[1] IN
    \A c \in 0..Len(q.modelFallbacks) :
        LET w == WaitsOfCycle(q.waits, c) IN
        /\ \A k \in 1..Len(w) : w[k] = RETRY_DELAY * (2 ^ (k - 1))
        /\ Len(w) <= Max(1, MAX_RETRIES) - 1
        /\ (q.pc = "done" \/ c < Len(q.modelFallbacks))
              => Len(w) = Max(1, MAX_RETRIES) - 1

\* a request waited RETRY_DELAY then twice that on its first model and
\* started again at RETRY_DELAY on a fallback model
C27_WaitsRestarted ==
    /\ MAX_RETRIES = 3
    /\ WaitsOfCycle(reqs[1].waits, 0) = <<RETRY_DELAY, 2 * RETRY_DELAY>>
    /\ WaitsOfCycle(reqs[1].waits, 1) = <<RETRY_DELAY>>

(***************************************************************************)
(* The streaming relay never goes back to the upstream.                    *)
(***************************************************************************)
\* C28: for a streaming request, once any byte of the upstream stream has
\* been forwarded to the caller, no further upstream call (a retry on the
\* same model or an attempt on a fallback model) is made for that request.
C28_NoUpstreamCallAfterForwarding ==
    [][\A r \in StreamReqs :
          (reqs[r].stream /\ reqs[r].events # <<>>)
              => reqs'[r].calls = reqs[r].calls]_vars

\* a piped stream failed after chunks had been forwarded, and the request
\* still counts the single upstream call it started with
C28_BrokenAfterChunkOneCall ==
    \E r \in StreamReqs :
        /\ reqs[r].stream
        /\ reqs[r].pc = "hung"
        /\ "chunk" \in SeqElems(reqs[r].events)
        /\ Len(reqs[r].calls) = 1

(***************************************************************************)
(* Requests without a user message on the SDK-mediated executors (checked  *)
(* under SpecExec).                                                        *)
(***************************************************************************)
\* a non-streaming request that reached the Gemini or OpenCode executor
\* with messages holding no user-role message
SdkRequestWithoutUser(q) ==
    /\ q.pc \notin {"idle", "crashed"}
    /\ q.endpoint = "chat"
    /\ ~q.stream
    /\ ~q.hit
    /\ ~q.unconfigured
    /\ q.executor \in {"gemini", "opencode"}
    /\ ~HasUserMessage(q.messages)

\* C29: a non-streaming request to an SDK-mediated provider (Gemini,
\* OpenCode) whose messages contain no user-role message is answered with a
\* 400 validation_error after zero upstream calls, zero retries and no
\* backoff wait.
C29_NoUserMessageFailsFast ==
    \A r \in ReqIds :
        LET q == reqs[r] IN
        SdkRequestWithoutUser(q)
            => /\ q.calls = <<>>
               /\ q.retries = 0
               /\ q.waits = <<>>
               /\ q.pc # "waiting"
               /\ q.pc = "done"
                     => /\ q.response.status = 400
                        /\ q.response.type = "validation_error"

(***************************************************************************)
(* Specification of provider naming: the administrator registers a custom  *)
(* provider and maps client model names with a provider named in the body, *)
(* and one request is served.                                              *)
(***************************************************************************)
NamedModels == {"gpt-4", "gemini-1.5-flash"}

BodyProviders == {"none", "gemini", "openrouter", "opencode"} \cup ValidProviderNames

InitNamed ==
    /\ InitCommon
    /\ MAX_RETRIES \in {1, 2}
    /\ \E env \in EnvKeys : InitKeys(env)

NextNamed ==
    \/ \E m \in NamedModels : ChatStart(1, m, UserMsg, FALSE, <<>>)
    \/ AttemptFails(1, "http500")
    \/ BackoffDone(1)
    \/ AttemptSucceeds(1)
    \/ \E n \in ProviderNames : ConfigCustomProvider(AdminToken, n)
    \/ \E o \in NamedModels, t \in Targets, p \in BodyProviders :
          ConfigModels(AdminToken, o, t, p)

SpecNamed == InitNamed /\ [][NextNamed]_vars

\* the providers an administrator can name for a model: the built-in ones
\* and the custom providers registered so far
NameableProviders == {"gemini", "opencode", "openrouter"} \cup customProviders

\* C30: after an administrator has mapped a client model name to a target
\* model and named the provider for it (gemini, opencode, openrouter or a
\* registered custom provider), a request for that client model name is
\* dispatched to that provider.
C30_DispatchedToNamedProvider ==
    [][\A r \in ReqIds :
          (/\ reqs[r].pc = "idle"
           /\ reqs'[r].pc # "idle"
           /\ reqs'[r].endpoint = "chat"
           /\ reqs'[r].executor # "none"
           /\ namedProvider[reqs'[r].requestedModel] \in NameableProviders)
              => reqs'[r].executor = namedProvider[reqs'[r].requestedModel]]_vars

(***************************************************************************)
(* Provider of the fallback models (checked under SpecExec).               *)
(***************************************************************************)
\* C31: every upstream call made for a fallback model is sent to the
\* provider the registry assigns to that model: a fallback model assigned
\* to Gemini or OpenCode is never sent to OpenRouter.
C31_FallbackSentToAssignedProvider ==
    [][\A r \in ReqIds :
          (/\ Len(reqs'[r].calls) > Len(reqs[r].calls)
           /\ Len(reqs'[r].modelFallbacks) > 0)
              => reqs'[r].executor = ProviderOf(LastCall(reqs'[r]))]_vars

(***************************************************************************)
(* Specification of key removal: chat requests to OpenRouter and Gemini    *)
(* retry and fall back while the administrator adds and removes keys.      *)
(***************************************************************************)
InitRevoke ==
    /\ InitCommon
    /\ MAX_RETRIES = 2
    /\ InitKeys([openrouter |-> TRUE, gemini |-> TRUE])

NextRevoke ==
    \/ \E m \in {"gpt-4", "gemini-1.5-flash"} : ChatStart(1, m, UserMsg, FALSE, <<>>)
    \/ AttemptFails(1, "http500")
    \/ BackoffDone(1)
    \/ AttemptSucceeds(1)
    \/ \E k \in PoolKeys, a \in {"add", "remove"} : ManageKeys("openrouter", k, a)
    \/ \E k \in {"gm-key-1", "key-2"}, a \in {"add", "remove"} : ManageKeys("gemini", k, a)

SpecRevoke == InitRevoke /\ [][NextRevoke]_vars

\* C32: once an API key has been removed from a provider's pool, no
\* upstream call started after the removal is authenticated with it: the
\* key of every call that starts is in the pool of the provider called,
\* for retries and fallback attempts of requests in flight and for calls
\* made through the Gemini client too.
C32_CallKeyInPool ==
    [][\A r \in ReqIds :
          Len(reqs'[r].callKeys) > Len(reqs[r].callKeys)
              => reqs'[r].callKeys[Len(reqs'[r].callKeys)]
                     \in SeqElems(providerApiKeys[reqs'[r].executor])]_vars

(***************************************************************************)
(* Frame of POST /config/models (checked under SpecRoute).                 *)
(***************************************************************************)
\* target model and dispatch provider of client model name n under a
\* mapping table and a provider registry
ResolutionIn(mapping, registry, n) ==
    <<mapping[n],
      IF registry[mapping[n]] # "none" THEN registry[mapping[n]] ELSE "openrouter">>

\* C33: a successful POST /config/models for client model name A changes
\* the resolution of A only: every other client model name keeps its target
\* model and the provider its requests are dispatched to.
C33_OtherNamesKeepResolution ==
    [][\A o \in ClientNames, t \in Targets, p \in {"none", "gemini", "openrouter", "opencode"} :
          (ConfigModels(AdminToken, o, t, p) /\ lastCall'.status = 200)
              => \A n \in ClientNames \ {o} :
                    ResolutionIn(MODEL_MAPPING', MODEL_PROVIDER', n)
                        = ResolutionIn(MODEL_MAPPING, MODEL_PROVIDER, n)]_vars

(***************************************************************************)
(* Specification of streaming next to the cache: streaming and             *)
(* non-streaming requests for the same models and messages.                *)
(***************************************************************************)
InitStreamCache ==
    /\ InitCommon
    /\ MAX_RETRIES = 2
    /\ InitKeys([openrouter |-> TRUE, gemini |-> TRUE])

NextStreamCache ==
    \/ \E r \in StreamReqs, m \in StreamModels, st \in BOOLEAN :
          ChatStart(r, m, UserMsg, st, <<>>)
    \/ \E r \in StreamReqs : AttemptFails(r, "http500")
    \/ \E r \in StreamReqs : BackoffDone(r)
    \/ \E r \in StreamReqs : AttemptSucceeds(r)
    \/ \E r \in StreamReqs : StreamConnectFails(r, "http500")
    \/ \E r \in StreamReqs : StreamConnects(r)
    \/ \E r \in StreamReqs : StreamChunk(r)
    \/ \E r \in StreamReqs : StreamEnds(r)
    \/ \E r \in StreamReqs : StreamBreaks(r)

SpecStreamCache == InitStreamCache /\ [][NextStreamCache]_vars

\* C34: a request with stream = true is never answered from the response
\* cache, and no step of it writes or replaces a cache entry, whether it
\* succeeds or fails and whatever its provider.
C34_StreamBypassesCache ==
    [][\A r \in StreamReqs :
          (reqs'[r] # reqs[r] /\ reqs'[r].stream)
              => /\ ~reqs'[r].hit
                 /\ reqs'[r].response.kind # "completion"
                 /\ responseCache' = responseCache
                 /\ storeLog' = storeLog
                 /\ timers' = timers]_vars

\* a streaming request went upstream although the cache held a response
\* under its key, and another one was refused or failed: the cache still
\* holds what the non-streaming request stored
C34_StreamedPastCachedResponse ==
    \E r \in StreamReqs :
        /\ reqs[r].stream
        /\ reqs[r].pc = "done"
        /\ reqs[r].cacheKey \in DOMAIN responseCache
        /\ reqs[r].calls # <<>>
        /\ \E s \in storeLog : s.key = reqs[r].cacheKey /\ s.at <= reqs[r].lookupAt

\* C35: a streaming request whose resolved provider does not support
\* streaming (the SDK-mediated Gemini provider) is rejected with an error
\* response before any upstream call is made for it.
C35_GeminiStreamRejected ==
    \A r \in StreamReqs :
        LET q == reqs[r] IN
        (q.pc # "idle" /\ q.stream /\ ProviderOf(q.resolved) = "gemini")
            => /\ q.pc = "done"
               /\ q.response.kind = "error"
               /\ q.response.status >= 400
               /\ q.calls = <<>>
               /\ q.attempts = 0
               /\ q.events = <<>>

\* a streaming request for a Gemini model was refused with 501 while the
\* Gemini client was configured
C35_RefusedWith501 ==
    \E r \in StreamReqs :
        /\ reqs[r].stream
        /\ reqs[r].requestedModel = "gemini-1.5-flash"
        /\ geminiClient
        /\ reqs[r].response.status = 501
        /\ reqs[r].response.code = "streaming_not_supported"
        /\ reqs[r].calls = <<>>

(***************************************************************************)
(* Round-robin use of a provider's key pool (checked under SpecRevoke).    *)
(***************************************************************************)
\* request r is dispatched to provider p, whose pool is not empty, in this step
DispatchStep(r, p) ==
    /\ reqs[r].pc = "idle"
    /\ reqs'[r].pc \notin {"idle", "crashed"}
    /\ reqs'[r].endpoint = "chat"
    /\ ~reqs'[r].hit
    /\ ProviderOf(reqs'[r].resolved) = p
    /\ Len(providerApiKeys[p]) > 0

\* C36: while a provider's pool of n keys is unchanged, any n consecutive
\* dispatches to that provider use each of the n keys exactly once, in pool
\* order, and the (n+1)-th dispatch uses the key of the first.  Stated per
\* dispatch: it uses the key at the provider's round-robin position, which
\* lies inside the pool, and moves the position to the next key, wrapping
\* around at the end of the pool.
C36_DispatchTakesNextKeyInOrder ==
    [][\A r \in ReqIds, p \in Providers :
          DispatchStep(r, p)
              => LET keys  == providerApiKeys[p]
                     index == providerKeyIndex[p]
                 IN /\ index < Len(keys)
                    /\ KeyOfCall(reqs'[r]) = keys[index + 1]
                    /\ providerKeyIndex'[p] = (index + 1) % Len(keys)]_vars

(***************************************************************************)
(* Specification of the stored message histories: every method of the      *)
(* session manager, called with ids that may or may not have a session.    *)
(***************************************************************************)
InitHistory ==
    /\ InitCommon
    /\ MAX_RETRIES = 1
    /\ InitKeys([openrouter |-> TRUE, gemini |-> TRUE])

NextHistory ==
    \/ \E i \in SessionIds : createSession(i)
    \/ \E i \in SessionIds, r \in {"user", "assistant"} : addMessage(i, r)
    \/ \E i \in SessionIds : closeSession(i)
    \/ \E i \in SessionIds : deleteSession(i)
    \/ cleanupExpiredSessions
    \/ Tick

SpecHistory == InitHistory /\ [][NextHistory]_vars

\* C38: after any sequence of createSession, addMessage, closeSession,
\* deleteSession and cleanupExpiredSessions calls, with arbitrary session
\* ids, a message history is stored only for ids that have a session
\* record: deleting or expiring a session leaves no stored messages for its
\* id.
C38_HistoryOnlyForSessions ==
    DOMAIN messageHistory \subseteq DOMAIN sessions

(***************************************************************************)
(* Specification of the OpenCode executors: requests for an OpenCode       *)
(* model, with and without a session id in the body, with the SDK client   *)
(* created (the require of @opencode-ai/sdk in place) or not.              *)
(***************************************************************************)
OpencodeOptions == {<<>>, <<<<"sessionId", "session-1">>>>}

InitOpencode ==
    /\ InitGateway
    /\ opencodeClient \in BOOLEAN
    /\ MAX_RETRIES = 2
    /\ InitKeys([openrouter |-> TRUE, gemini |-> TRUE])

NextOpencode ==
    \/ \E r \in StreamReqs, msgs \in ExecMessages, st \in BOOLEAN, o \in OpencodeOptions :
          ChatStart(r, "opencode-minimax-m2.5", msgs, st, o)
    \/ \E r \in StreamReqs, err \in {"http500", "nouser"} : AttemptFails(r, err)
    \/ \E r \in StreamReqs : BackoffDone(r)
    \/ \E r \in StreamReqs : AttemptSucceeds(r)
    \/ \E r \in StreamReqs, err \in {"http500", "nouser"} : StreamConnectFails(r, err)
    \/ \E r \in StreamReqs : StreamConnects(r)

SpecOpencode == InitOpencode /\ [][NextOpencode]_vars

\* the user messages stored in all histories
StoredUserMessages ==
    {p \in (DOMAIN messageHistory) \X (1..8) :
        /\ p[2] <= Len(messageHistory[p[1]])
        /\ messageHistory[p[1]][p[2]].role = "user"}

\* the roles of the messages stored for a session id, in order
RolesOf(sessionId) ==
    [k \in 1..Len(messageHistory[sessionId]) |-> messageHistory[sessionId][k].role]

InitLogin ==
    /\ InitCommon
    /\ MAX_RETRIES = 1
    /\ InitKeys([openrouter |-> TRUE, gemini |-> TRUE])

NextLogin ==
    \/ \E c \in DeviceCodes, e \in ExpiresIn : requestDeviceCode(c, e)
    \/ \E c \in PollCodes : pollAccessToken(c)
    \/ \E c \in DeviceCodes, a \in TokenAnswers : pollResponds(c, a)
    \/ \E c \in DeviceCodes, g \in GithubIds : DevicePollAuthorized(c, g)
    \/ \E t \in PresentableTokens : ClearCache(t)

SpecLogin == InitLogin /\ [][NextLogin]_vars

\* C39: after a device-flow poll succeeds for a GitHub user, a user record
\* for that user exists in the user store under the same id that is
\* embedded in the issued JWT, so a request presenting that JWT passes the
\* auth middleware as that user.
C39_DeviceLoginTokenAccepted ==
    lastUserOp.op = "/auth/device/poll"
        => /\ lastUserOp.result = lastUserOp.key
           /\ lastUserOp.result \in DOMAIN users
           /\ authMiddleware(Jwt(lastUserOp.result)) = 200
           /\ reqUser(Jwt(lastUserOp.result)) = lastUserOp.key

(***************************************************************************)
(* Status of a device flow (checked under SpecDevice).                     *)
(***************************************************************************)
\* C40: getFlowStatus reports 'invalid' exactly for device codes that are
\* not tracked, and 'active' only for a tracked flow whose expiry time has
\* not yet passed; a tracked flow whose expiry time has passed is reported
\* 'expired', whether or not it has been polled since expiring.
C40_StatusFollowsExpiry ==
    \A c \in PollCodes :
        /\ (getFlowStatus(c) = "invalid") <=> (c \notin DOMAIN activeDeviceFlows)
        /\ (getFlowStatus(c) = "active")
              => (c \in DOMAIN activeDeviceFlows /\ ~FlowExpired(c))
        /\ (c \in DOMAIN activeDeviceFlows /\ FlowExpired(c))
              => getFlowStatus(c) = "expired"

====
